---- MODULE Spec2Model ----
(***************************************************************************)
(* A model of the Impact Atmospheric System plugin (ig.Atmosphere):       *)
(* calendar <-> Julian day conversion, the sunrise/sunset computation,    *)
(* the season search, the clock advance and the sun-phase derivation.     *)
(*                                                                         *)
(* Numbers.  A JavaScript number that denotes a day number is kept as a   *)
(* record [nan, d, f]: d whole days and f milliseconds (0 <= f < 1 day),  *)
(* value d + f/86400000, or NaN.  All calendar fields are integers, so    *)
(* the arithmetic of the conversions is exact here; the rounding of IEEE  *)
(* doubles (below 0.1 ms at these magnitudes) is not modelled.            *)
(***************************************************************************)
EXTENDS Integers, Sequences, FiniteSets, TLC

MsPerDay == 86400000
MsPerHour == 3600000
MsPerMinute == 60000
MsPerSecond == 1000

\* Math.floor of a quotient, and the remainder of JavaScript's % operator
\* (the sign of the dividend).
Floor(a, b) == a \div b
JSRem(a, b) == IF a >= 0 THEN a % b ELSE 0 - ((0 - a) % b)
Abs(a) == IF a < 0 THEN 0 - a ELSE a
\* F applied to the value of e: e is evaluated once, however often F reads it
With(e, F(_)) == CHOOSE r \in {F(x) : x \in {e}} : TRUE

(***************************************************************************)
(* Day numbers.                                                            *)
(***************************************************************************)
NaNJD == [nan |-> TRUE, d |-> 0, f |-> 0]
JD(d, f) == [nan |-> FALSE, d |-> d + Floor(f, MsPerDay), f |-> f % MsPerDay]
\* a < b and a >= b on numbers: every comparison with NaN is false
JDLt(a, b) == ~a.nan /\ ~b.nan /\ (a.d < b.d \/ (a.d = b.d /\ a.f < b.f))
JDGe(a, b) == ~a.nan /\ ~b.nan /\ (a.d > b.d \/ (a.d = b.d /\ a.f >= b.f))
JDAddMs(a, ms) == IF a.nan THEN NaNJD ELSE JD(a.d, a.f + ms)

(***************************************************************************)
(* The host's Date object (ECMAScript: MakeDay, MakeTime, MakeDate and    *)
(* the local-time getters, in a zone without daylight saving).  A Date is *)
(* [valid, day, ms]: days since 1970-01-01 and milliseconds in the day.   *)
(***************************************************************************)
InvalidDate == [valid |-> FALSE, day |-> 0, ms |-> 0]
InLeapYear(y) == (y % 4 = 0 /\ y % 100 # 0) \/ y % 400 = 0
DayFromYear(y) ==
    365 * (y - 1970) + Floor(y - 1969, 4) - Floor(y - 1901, 100) + Floor(y - 1601, 400)
MonthStart(m0, leap) ==
    LET t == <<0, 31, 59, 90, 120, 151, 181, 212, 243, 273, 304, 334>>
    IN t[m0 + 1] + (IF leap /\ m0 >= 2 THEN 1 ELSE 0)
MakeDay(year, month0, date) ==
    LET ym == year + Floor(month0, 12)
        mn == month0 % 12
    IN DayFromYear(ym) + MonthStart(mn, InLeapYear(ym)) + date - 1
MakeTime(h, n, s, ms) == h * MsPerHour + n * MsPerMinute + s * MsPerSecond + ms
\* new Date(Y, M0, D, H, N, S, ms); years 0..99 denote 1900..1999
NewDate(Y, M0, D, H, N, S, ms) ==
    LET yr == IF Y >= 0 /\ Y <= 99 THEN 1900 + Y ELSE Y
        t == MakeTime(H, N, S, ms)
    IN [valid |-> TRUE, day |-> MakeDay(yr, M0, D) + Floor(t, MsPerDay), ms |-> t % MsPerDay]
YearFromDay(day) ==
    LET p == 1970 + Floor(day, 366)
        q == 1970 + Floor(day, 365)
        lo == (IF p < q THEN p ELSE q) - 1
        hi == (IF p < q THEN q ELSE p) + 1
    IN CHOOSE y \in lo..hi : DayFromYear(y) <= day /\ day < DayFromYear(y + 1)
MonthFromDay(day) ==
    LET y == YearFromDay(day)
        diy == day - DayFromYear(y)
    IN CHOOSE m0 \in 0..11 :
          /\ MonthStart(m0, InLeapYear(y)) <= diy
          /\ (m0 = 11 \/ diy < MonthStart(m0 + 1, InLeapYear(y)))
DateFromDay(day) ==
    LET y == YearFromDay(day)
    IN day - DayFromYear(y) - MonthStart(MonthFromDay(day), InLeapYear(y)) + 1

(***************************************************************************)
(* CalendarDate: the gregorianDate object.  Its fields are read from a    *)
(* Date by its getters; the getters of an invalid Date all return NaN     *)
(* (nan = TRUE).                                                           *)
(***************************************************************************)
NaNDate ==
    [nan |-> TRUE, year |-> 0, month |-> 0, day |-> 0,
     hour |-> 0, minute |-> 0, second |-> 0, millisecond |-> 0]
GDate(y, mo, d, h, n, s, ms) ==
    [nan |-> FALSE, year |-> y, month |-> mo, day |-> d,
     hour |-> h, minute |-> n, second |-> s, millisecond |-> ms]
\* the object literal of setDateTime: getFullYear(), getMonth() + 1, ...
DateFields(datetime) ==
    With(datetime, LAMBDA dt :
        IF ~dt.valid THEN NaNDate
        ELSE GDate(YearFromDay(dt.day), MonthFromDay(dt.day) + 1, DateFromDay(dt.day),
                   Floor(dt.ms, MsPerHour), Floor(dt.ms, MsPerMinute) % 60,
                   Floor(dt.ms, MsPerSecond) % 60, dt.ms % 1000))

(***************************************************************************)
(* convertGregorianToJulian                                                *)
(***************************************************************************)
\* ((153 * e + 2) / 5).floor(): the days before month e of the year that
\* starts in March
MonthDayOffset_Truncated(e) == Floor(153 * e, 5)
MonthDayOffset(e) == Floor(153 * e + 2, 5)
convertGregorianToJulian(gDate) ==
    IF gDate.nan THEN NaNJD
    ELSE
    LET a == Floor(gDate.month - 3, 12)
        b == gDate.year + a
        c == Floor(b, 100)
        d == JSRem(b, 100)
        e == gDate.month - 12 * a - 3
    IN JD(Floor(146097 * c, 4) + Floor(36525 * d, 100) + MonthDayOffset(e)
             + gDate.day + 1721119,
          (gDate.hour - 12) * MsPerHour + gDate.minute * MsPerMinute
             + gDate.second * MsPerSecond + gDate.millisecond)

(***************************************************************************)
(* convertJulianToGregorian.  f = 4 * (jDate - 1721120) + 3 keeps the     *)
(* fraction of jDate; fi is its floor, and floor(f / n) = floor(fi / n).  *)
(* k is not floored in the source; l and the month handed to the Date     *)
(* constructor (which truncates it) see its integer part.  The model      *)
(* covers jDate >= 0 and negative whole jDate (the sentinel -1).          *)
(***************************************************************************)
DayCorrection(H) == IF H >= 12 /\ H < 18 THEN 1 ELSE 0
convertJulianToGregorian(jDate) ==
    IF jDate.nan THEN InvalidDate
    ELSE
    LET fi == 4 * (jDate.d - 1721120) + 3 + Floor(4 * jDate.f, MsPerDay)
        g == Floor(fi, 146097)
        h == 100 * Floor(JSRem(fi, 146097), 4) + 99
        i == Floor(h, 36525)
        j == 5 * Floor(JSRem(h, 36525), 100) + 2
        k == Floor(j, 153)
        l == Floor(k + 2, 12)
        t == jDate.f
        Y == 100 * g + i + l
        M == k - 12 * l + 3
        D0 == Floor(JSRem(j, 153), 5)
        H == Floor(t, MsPerHour) + 12
        N == Floor(t % MsPerHour, MsPerMinute)
        S == Floor(t % MsPerMinute, MsPerSecond)
        m == t % MsPerSecond
        D == D0 + DayCorrection(H)
    IN NewDate(Y, M - 1, D, H, N, S, m)

(***************************************************************************)
(* JavaScript values handed to the configuration methods.  A stored       *)
(* number is [nan, v] with v in thousandths; an argument is [t, v, s]:    *)
(* t = "undef", "num" (v thousandths), "nan" or "str" (the literal s).    *)
(***************************************************************************)
Num(v) == [nan |-> FALSE, v |-> v]
NaNNum == [nan |-> TRUE, v |-> 0]
ArgUndef == [t |-> "undef", v |-> 0, s |-> ""]
ArgNum(v) == [t |-> "num", v |-> v, s |-> ""]
ArgNaN == [t |-> "nan", v |-> 0, s |-> ""]
ArgStr(s) == [t |-> "str", v |-> 0, s |-> s]
\* Number(s) and parseFloat(s) of a string literal
NumberOf(s) ==
    CASE s = "5" -> Num(5000)
      [] s = "-3" -> Num(-3000)
      [] s = "" -> Num(0)
      [] OTHER -> NaNNum
ParseFloatOf(s) ==
    CASE s = "5" -> Num(5000)
      [] s = "-3" -> Num(-3000)
      [] s = "12px" -> Num(12000)
      [] OTHER -> NaNNum

(***************************************************************************)
(* ig.Timer: elapsed is the game time since the timer's base, target the  *)
(* number of seconds it was set to (seconds || 0), both in milliseconds.  *)
(***************************************************************************)
Timer(target) == [elapsed |-> 0, target |-> IF target.nan THEN 0 ELSE target.v]
TimerDelta(tm) == tm.elapsed - tm.target
TimerReset(tm) == [tm EXCEPT !.elapsed = 0]

(***************************************************************************)
(* Position of the sun for one Julian cycle at one coordinate: the        *)
(* equation-of-time term of the solar transit and the hour angle, both as *)
(* a fraction of a day in milliseconds.  Latitude and longitude are in    *)
(* 1/10000 degree.  The values are those of the source's formulas,        *)
(* tabulated for the coordinates and days the model visits.               *)
(***************************************************************************)
\* BEGIN SunTable
SunRows_P407789_N739675 ==
    {[base |-> 5190,
      rows |-> <<
          <<484115, 21680002, 0>>, <<465699, 21761879, 0>>, <<447134, 21843743, 0>>,
          <<428444, 21925587, 0>>, <<409652, 22007398, 0>>, <<390785, 22089167, 0>>,
          <<371864, 22170883, 0>>, <<352915, 22252538, 0>>>>],
     [base |-> 5212,
      rows |-> <<
          <<80841, 23462592, 0>>, <<64485, 23541756, 0>>, <<48461, 23620659, 0>>,
          <<32788, 23699288, 0>>, <<17482, 23777627, 0>>, <<2559, 23855662, 0>>,
          <<-11965, 23933377, 0>>, <<-26075, 24010756, 0>>, <<-39758, 24087782, 0>>,
          <<-53000, 24164439, 0>>, <<-65787, 24240709, 0>>>>],
     [base |-> 5282,
      rows |-> <<
          <<69272, 27175434, 0>>, <<81487, 27180084, 0>>, <<93707, 27182874, 0>>,
          <<105913, 27183803, 0>>, <<118085, 27182870, 0>>, <<130204, 27180077, 0>>,
          <<142249, 27175427, 0>>, <<154203, 27168926, 0>>>>],
     [base |-> 5374,
      rows |-> <<
          <<-346702, 22237831, 0>>, <<-368876, 22157377, 0>>, <<-391016, 22076864, 0>>,
          <<-413099, 21996303, 0>>, <<-435099, 21915703, 0>>, <<-456994, 21835072, 0>>,
          <<-478759, 21754421, 0>>, <<-500370, 21673759, 0>>>>],
     [base |-> 5465,
      rows |-> <<
          <<-199865, 16647162, 0>>, <<-171211, 16641040, 0>>, <<-142452, 16636955, 0>>,
          <<-113617, 16634913, 0>>, <<-84736, 16634915, 0>>, <<-55837, 16636964, 0>>,
          <<-26950, 16641058, 0>>, <<1896, 16647193, 0>>, <<30672, 16655363, 0>>,
          <<59348, 16665561, 0>>, <<87896, 16677778, 0>>, <<116287, 16692000, 0>>,
          <<144493, 16708215, 0>>, <<172484, 16726406, 0>>, <<200233, 16746556, 0>>,
          <<227713, 16768646, 0>>, <<254896, 16792653, 0>>, <<281754, 16818555, 0>>,
          <<308262, 16846327, 0>>>>],
     [base |-> 5555,
      rows |-> <<
          <<488869, 21658743, 0>>, <<470496, 21740621, 0>>, <<451967, 21822490, 0>>,
          <<433307, 21904340, 0>>, <<414540, 21986160, 0>>, <<395689, 22067941, 0>>,
          <<376780, 22149672, 0>>, <<357837, 22231344, 0>>>>],
     [base |-> 5625,
      rows |-> <<
          <<-161687, 26614581, 0>>, <<-154386, 26657038, 0>>, <<-146688, 26698040, 0>>,
          <<-138606, 26737558, 0>>, <<-130155, 26775565, 0>>, <<-121350, 26812031, 0>>,
          <<-112207, 26846931, 0>>, <<-102742, 26880237, 0>>, <<-92971, 26911924, 0>>,
          <<-82911, 26941967, 0>>, <<-72578, 26970344, 0>>>>],
     [base |-> 5647,
      rows |-> <<
          <<66103, 27173923, 0>>, <<78314, 27179055, 0>>, <<90535, 27182328, 0>>,
          <<102746, 27183740, 0>>, <<114929, 27183291, 0>>, <<127063, 27180981, 0>>,
          <<139130, 27176813, 0>>, <<151109, 27170791, 0>>>>],
     [base |-> 5739,
      rows |-> <<
          <<-340942, 22258710, 0>>, <<-363121, 22178272, 0>>, <<-385272, 22097774, 0>>,
          <<-407372, 22017224, 0>>, <<-429396, 21936633, 0>>, <<-451321, 21856009, 0>>,
          <<-473122, 21775363, 0>>, <<-494775, 21694703, 0>>>>],
     [base |-> 5830,
      rows |-> <<
          <<-207284, 16649084, 0>>, <<-178662, 16642434, 0>>, <<-149927, 16637820, 0>>,
          <<-121110, 16635247, 0>>, <<-92238, 16634718, 0>>, <<-63340, 16636236, 0>>,
          <<-34447, 16639799, 0>>, <<-5588, 16645404, 0>>>>],
     [base |-> 5921,
      rows |-> <<
          <<475282, 21719363, 0>>, <<456792, 21801235, 0>>, <<438163, 21883091, 0>>,
          <<419421, 21964920, 0>>, <<400590, 22046712, 0>>, <<381694, 22128457, 0>>,
          <<362757, 22210145, 0>>, <<343803, 22291766, 0>>>>],
     [base |-> 6013,
      rows |-> <<
          <<75142, 27177901, 0>>, <<87362, 27181657, 0>>, <<99578, 27183553, 0>>,
          <<111770, 27183586, 0>>, <<123919, 27181759, 0>>, <<136005, 27178073, 0>>,
          <<148008, 27172533, 0>>, <<159910, 27165143, 0>>>>],
     [base |-> 6105,
      rows |-> <<
          <<-357364, 22199163, 0>>, <<-379525, 22118679, 0>>, <<-401641, 22038142, 0>>,
          <<-423687, 21957561, 0>>, <<-445639, 21876945, 0>>, <<-467475, 21796303, 0>>,
          <<-489169, 21715646, 0>>, <<-510696, 21634982, 0>>>>],
     [base |-> 6196,
      rows |-> <<
          <<-186105, 16643965, 0>>, <<-157397, 16638822, 0>>, <<-128598, 16635718, 0>>,
          <<-99737, 16634659, 0>>, <<-70844, 16635645, 0>>, <<-41947, 16638677, 0>>,
          <<-13076, 16643752, 0>>, <<15740, 16650867, 0>>>>]}
SunRows_P910000_P0 ==
    {[base |-> 5190,
      rows |-> <<
          <<487878, 23468858, 0>>, <<469496, 17982793, 0>>, <<450959, 11771043, 0>>,
          <<432293, 0, 1>>, <<413520, 0, 1>>, <<394666, 0, 1>>, <<375755, 0, 1>>,
          <<356810, 0, 1>>>>],
     [base |-> 5212,
      rows |-> <<
          <<84242, 0, 1>>, <<67819, 0, 1>>, <<51725, 0, 1>>, <<35979, 0, 1>>, <<20596, 0, 1>>,
          <<5594, 0, 1>>, <<-9014, 0, 1>>, <<-23210, 0, 1>>, <<-36982, 0, 1>>,
          <<-50316, 0, 1>>, <<-63198, 0, 1>>>>],
     [base |-> 5282,
      rows |-> <<
          <<66764, 0, 1>>, <<78976, 0, 1>>, <<91196, 0, 1>>, <<103407, 0, 1>>,
          <<115588, 0, 1>>, <<127719, 0, 1>>, <<139781, 0, 1>>, <<151755, 0, 1>>>>],
     [base |-> 5374,
      rows |-> <<
          <<-342144, 0, 1>>, <<-364322, 0, 1>>, <<-386471, 0, 1>>, <<-408567, 0, 1>>,
          <<-430587, 0, 1>>, <<-452505, 9410631, 0>>, <<-474299, 16160875, 0>>,
          <<-495943, 21659327, 0>>>>],
     [base |-> 5465,
      rows |-> <<
          <<-205736, 0, 1>>, <<-177108, 0, 1>>, <<-148368, 0, 1>>, <<-119547, 0, 1>>,
          <<-90672, 0, 1>>, <<-61775, 0, 1>>, <<-32883, 0, 1>>, <<-4026, 0, 1>>,
          <<24767, 0, 1>>, <<53466, 0, 1>>, <<82043, 0, 1>>, <<110468, 0, 1>>,
          <<138714, 0, 1>>, <<166752, 0, 1>>, <<194553, 0, 1>>, <<222090, 0, 1>>,
          <<249336, 0, 1>>, <<276263, 0, 1>>, <<302845, 0, 1>>>>],
     [base |-> 5555,
      rows |-> <<
          <<492622, 24907093, 0>>, <<474284, 19427347, 0>>, <<455786, 13545792, 0>>,
          <<437151, 4449042, 0>>, <<418403, 0, 1>>, <<399568, 0, 1>>, <<380669, 0, 1>>,
          <<361731, 0, 1>>>>],
     [base |-> 5625,
      rows |-> <<
          <<-163137, 0, 1>>, <<-155919, 0, 1>>, <<-148301, 0, 1>>, <<-140297, 0, 1>>,
          <<-131921, 0, 1>>, <<-123187, 0, 1>>, <<-114113, 0, 1>>, <<-104713, 0, 1>>,
          <<-95003, 0, 1>>, <<-85001, 0, 1>>, <<-74722, 0, 1>>>>],
     [base |-> 5647,
      rows |-> <<
          <<63598, 0, 1>>, <<75803, 0, 1>>, <<88024, 0, 1>>, <<100239, 0, 1>>,
          <<112429, 0, 1>>, <<124575, 0, 1>>, <<136657, 0, 1>>, <<148656, 0, 1>>>>],
     [base |-> 5739,
      rows |-> <<
          <<-336384, 0, 1>>, <<-358566, 0, 1>>, <<-380725, 0, 1>>, <<-402837, 0, 1>>,
          <<-424879, 0, 1>>, <<-446826, 6922751, 0>>, <<-468654, 14614110, 0>>,
          <<-490339, 20266072, 0>>>>],
     [base |-> 5830,
      rows |-> <<
          <<-213148, 0, 1>>, <<-184553, 0, 1>>, <<-155839, 0, 1>>, <<-127036, 0, 1>>,
          <<-98173, 0, 1>>, <<-69278, 0, 1>>, <<-40382, 0, 1>>, <<-11513, 0, 1>>>>],
     [base |-> 5921,
      rows |-> <<
          <<479062, 20848082, 0>>, <<460603, 15179445, 0>>, <<442001, 7746048, 0>>,
          <<423280, 0, 1>>, <<404465, 0, 1>>, <<385581, 0, 1>>, <<366650, 0, 1>>,
          <<347698, 0, 1>>>>],
     [base |-> 6013,
      rows |-> <<
          <<72632, 0, 1>>, <<84851, 0, 1>>, <<97069, 0, 1>>, <<109267, 0, 1>>,
          <<121427, 0, 1>>, <<133527, 0, 1>>, <<145550, 0, 1>>, <<157474, 0, 1>>>>],
     [base |-> 6105,
      rows |-> <<
          <<-352808, 0, 1>>, <<-374975, 0, 1>>, <<-397102, 0, 1>>, <<-419164, 0, 1>>,
          <<-441138, 2953427, 0>>, <<-462999, 12963288, 0>>, <<-484724, 18858946, 0>>,
          <<-506288, 24251643, 0>>>>],
     [base |-> 6196,
      rows |-> <<
          <<-191990, 0, 1>>, <<-163304, 0, 1>>, <<-134521, 0, 1>>, <<-105671, 0, 1>>,
          <<-76782, 0, 1>>, <<-47883, 0, 1>>, <<-19004, 0, 1>>, <<9825, 0, 1>>>>]}
SunRows_N910000_N1810000 ==
    {[base |-> 5190,
      rows |-> <<
          <<478657, 0, 1>>, <<460194, 0, 1>>, <<441589, 8714579, 0>>, <<422866, 15780389, 0>>,
          <<404050, 21381384, 0>>, <<385164, 26937892, 0>>, <<366232, 33738015, 0>>,
          <<347280, 0, 1>>>>],
     [base |-> 5212,
      rows |-> <<
          <<75945, 0, 1>>, <<59685, 0, 1>>, <<43764, 0, 1>>, <<28198, 0, 1>>, <<13005, 0, 1>>,
          <<-1801, 0, 1>>, <<-16204, 0, 1>>, <<-30189, 0, 1>>, <<-43742, 0, 1>>,
          <<-56850, 0, 1>>, <<-69500, 0, 1>>>>],
     [base |-> 5282,
      rows |-> <<
          <<72902, 0, 1>>, <<85120, 0, 1>>, <<97338, 0, 1>>, <<109536, 0, 1>>,
          <<121694, 0, 1>>, <<133793, 0, 1>>, <<145814, 0, 1>>, <<157736, 0, 1>>>>],
     [base |-> 5374,
      rows |-> <<
          <<-353297, 35913006, 0>>, <<-375463, 28403964, 0>>, <<-397589, 22789735, 0>>,
          <<-419649, 17375234, 0>>, <<-441621, 11098480, 0>>, <<-463480, 0, 1>>,
          <<-485201, 0, 1>>, <<-506761, 0, 1>>>>],
     [base |-> 5465,
      rows |-> <<
          <<-191358, 0, 1>>, <<-162670, 0, 1>>, <<-133886, 0, 1>>, <<-105034, 0, 1>>,
          <<-76144, 0, 1>>, <<-47246, 0, 1>>, <<-18368, 0, 1>>, <<10460, 0, 1>>,
          <<39209, 0, 1>>, <<67851, 0, 1>>, <<96355, 0, 1>>, <<124694, 0, 1>>,
          <<152838, 0, 1>>, <<180761, 0, 1>>, <<208433, 0, 1>>, <<235827, 0, 1>>,
          <<262916, 0, 1>>, <<289673, 0, 1>>, <<316071, 0, 1>>>>],
     [base |-> 5555,
      rows |-> <<
          <<483424, 0, 1>>, <<465002, 0, 1>>, <<446432, 5929853, 0>>, <<427737, 14188624, 0>>,
          <<408943, 19968528, 0>>, <<390073, 25447278, 0>>, <<371151, 31700178, 0>>,
          <<352201, 0, 1>>>>],
     [base |-> 5625,
      rows |-> <<
          <<-159559, 0, 1>>, <<-152138, 0, 1>>, <<-144324, 0, 1>>, <<-136131, 0, 1>>,
          <<-127573, 0, 1>>, <<-118667, 0, 1>>, <<-109426, 0, 1>>, <<-99868, 0, 1>>,
          <<-90010, 0, 1>>, <<-79866, 0, 1>>, <<-69456, 0, 1>>>>],
     [base |-> 5647,
      rows |-> <<
          <<69731, 0, 1>>, <<81947, 0, 1>>, <<94167, 0, 1>>, <<106372, 0, 1>>,
          <<118543, 0, 1>>, <<130659, 0, 1>>, <<142701, 0, 1>>, <<154651, 0, 1>>>>],
     [base |-> 5739,
      rows |-> <<
          <<-347538, 39473323, 0>>, <<-369711, 30034610, 0>>, <<-391849, 24190945, 0>>,
          <<-413929, 18811020, 0>>, <<-435926, 12913438, 0>>, <<-457817, 2761594, 0>>,
          <<-479576, 0, 1>>, <<-501180, 0, 1>>>>],
     [base |-> 5830,
      rows |-> <<
          <<-198787, 0, 1>>, <<-170129, 0, 1>>, <<-141367, 0, 1>>, <<-112530, 0, 1>>,
          <<-83647, 0, 1>>, <<-54748, 0, 1>>, <<-25862, 0, 1>>, <<2982, 0, 1>>>>],
     [base |-> 5921,
      rows |-> <<
          <<469801, 0, 1>>, <<451266, 0, 1>>, <<432602, 12477001, 0>>, <<413831, 18537717, 0>>,
          <<394978, 24001504, 0>>, <<376067, 29905773, 0>>, <<357122, 39379920, 0>>,
          <<338168, 0, 1>>>>],
     [base |-> 6013,
      rows |-> <<
          <<78774, 0, 1>>, <<90995, 0, 1>>, <<103206, 0, 1>>, <<115387, 0, 1>>,
          <<127519, 0, 1>>, <<139583, 0, 1>>, <<151558, 0, 1>>, <<163426, 0, 1>>>>],
     [base |-> 6105,
      rows |-> <<
          <<-363956, 31814873, 0>>, <<-386106, 25619655, 0>>, <<-408203, 20216160, 0>>,
          <<-430224, 14566631, 0>>, <<-452145, 6841085, 0>>, <<-473941, 0, 1>>,
          <<-495587, 0, 1>>, <<-517061, 0, 1>>>>],
     [base |-> 6196,
      rows |-> <<
          <<-177581, 0, 1>>, <<-148843, 0, 1>>, <<-120023, 0, 1>>, <<-91149, 0, 1>>,
          <<-62251, 0, 1>>, <<-33359, 0, 1>>, <<-4502, 0, 1>>, <<24292, 0, 1>>>>]}
SunRows_P400000_P0 ==
    {[base |-> 5190,
      rows |-> <<
          <<487878, 21665585, 0>>, <<469496, 21745238, 0>>, <<450959, 21824881, 0>>,
          <<432293, 21904506, 0>>, <<413520, 21984100, 0>>, <<394666, 22063656, 0>>,
          <<375755, 22143162, 0>>, <<356810, 22222609, 0>>>>],
     [base |-> 5212,
      rows |-> <<
          <<84242, 23400035, 0>>, <<67819, 23477066, 0>>, <<51725, 23553843, 0>>,
          <<35979, 23630353, 0>>, <<20596, 23706582, 0>>, <<5594, 23782513, 0>>,
          <<-9014, 23858134, 0>>, <<-23210, 23933427, 0>>, <<-36982, 24008377, 0>>,
          <<-50316, 24082967, 0>>, <<-63198, 24157181, 0>>>>],
     [base |-> 5282,
      rows |-> <<
          <<66764, 27019179, 0>>, <<78976, 27024051, 0>>, <<91196, 27027123, 0>>,
          <<103407, 27028392, 0>>, <<115588, 27027859, 0>>, <<127719, 27025525, 0>>,
          <<139781, 27021392, 0>>, <<151755, 27015464, 0>>>>],
     [base |-> 5374,
      rows |-> <<
          <<-342144, 22240691, 0>>, <<-364322, 22162438, 0>>, <<-386471, 22084125, 0>>,
          <<-408567, 22005763, 0>>, <<-430587, 21927360, 0>>, <<-452505, 21848926, 0>>,
          <<-474299, 21770470, 0>>, <<-495943, 21692001, 0>>>>],
     [base |-> 5465,
      rows |-> <<
          <<-205736, 16793843, 0>>, <<-177108, 16787507, 0>>, <<-148368, 16783143, 0>>,
          <<-119547, 16780757, 0>>, <<-90672, 16780352, 0>>, <<-61775, 16781930, 0>>,
          <<-32883, 16785490, 0>>, <<-4026, 16791027, 0>>, <<24767, 16798539, 0>>,
          <<53466, 16808017, 0>>, <<82043, 16819453, 0>>, <<110468, 16832836, 0>>,
          <<138714, 16848152, 0>>, <<166752, 16865387, 0>>, <<194553, 16884525, 0>>,
          <<222090, 16905546, 0>>, <<249336, 16928432, 0>>, <<276263, 16953159, 0>>,
          <<302845, 16979705, 0>>>>],
     [base |-> 5555,
      rows |-> <<
          <<492622, 21644904, 0>>, <<474284, 21724557, 0>>, <<455786, 21804204, 0>>,
          <<437151, 21883835, 0>>, <<418403, 21963438, 0>>, <<399568, 22043005, 0>>,
          <<380669, 22122525, 0>>, <<361731, 22201988, 0>>>>],
     [base |-> 5625,
      rows |-> <<
          <<-163137, 26468326, 0>>, <<-155919, 26509765, 0>>, <<-148301, 26549797, 0>>,
          <<-140297, 26588394, 0>>, <<-131921, 26625528, 0>>, <<-123187, 26661174, 0>>,
          <<-114113, 26695304, 0>>, <<-104713, 26727893, 0>>, <<-95003, 26758918, 0>>,
          <<-85001, 26788353, 0>>, <<-74722, 26816176, 0>>>>],
     [base |-> 5647,
      rows |-> <<
          <<63598, 27017620, 0>>, <<75803, 27022959, 0>>, <<88024, 27026498, 0>>,
          <<100239, 27028236, 0>>, <<112429, 27028171, 0>>, <<124575, 27026304, 0>>,
          <<136657, 27022637, 0>>, <<148656, 27017175, 0>>>>],
     [base |-> 5739,
      rows |-> <<
          <<-336384, 22260998, 0>>, <<-358566, 22182761, 0>>, <<-380725, 22104463, 0>>,
          <<-402837, 22026113, 0>>, <<-424879, 21947720, 0>>, <<-446826, 21869293, 0>>,
          <<-468654, 21790842, 0>>, <<-490339, 21712375, 0>>>>],
     [base |-> 5830,
      rows |-> <<
          <<-213148, 16795810, 0>>, <<-184553, 16788963, 0>>, <<-155839, 16784086, 0>>,
          <<-127036, 16781186, 0>>, <<-98173, 16780267, 0>>, <<-69278, 16781330, 0>>,
          <<-40382, 16784375, 0>>, <<-11513, 16789400, 0>>>>],
     [base |-> 5921,
      rows |-> <<
          <<479062, 21703877, 0>>, <<460603, 21783526, 0>>, <<442001, 21863162, 0>>,
          <<423280, 21942773, 0>>, <<404465, 22022351, 0>>, <<385581, 22101884, 0>>,
          <<366650, 22181363, 0>>, <<347698, 22260777, 0>>>>],
     [base |-> 6013,
      rows |-> <<
          <<72632, 27021745, 0>>, <<84851, 27025752, 0>>, <<97069, 27027958, 0>>,
          <<109267, 27028361, 0>>, <<121427, 27026962, 0>>, <<133527, 27023762, 0>>,
          <<145550, 27018766, 0>>, <<157474, 27011977, 0>>>>],
     [base |-> 6105,
      rows |-> <<
          <<-352808, 22203081, 0>>, <<-374975, 22124798, 0>>, <<-397102, 22046460, 0>>,
          <<-419164, 21968077, 0>>, <<-441138, 21889658, 0>>, <<-462999, 21811212, 0>>,
          <<-484724, 21732749, 0>>, <<-506288, 21654278, 0>>>>],
     [base |-> 6196,
      rows |-> <<
          <<-191990, 16790551, 0>>, <<-163304, 16785162, 0>>, <<-134521, 16781749, 0>>,
          <<-105671, 16780315, 0>>, <<-76782, 16780864, 0>>, <<-47883, 16783394, 0>>,
          <<-19004, 16787905, 0>>, <<9825, 16794393, 0>>>>]}
SunRows_N650000_P0 ==
    {[base |-> 5190,
      rows |-> <<
          <<487878, 22569238, 0>>, <<469496, 22365161, 0>>, <<450959, 22161343, 0>>,
          <<432293, 21957771, 0>>, <<413520, 21754432, 0>>, <<394666, 21551315, 0>>,
          <<375755, 21348406, 0>>, <<356810, 21145694, 0>>>>],
     [base |-> 5212,
      rows |-> <<
          <<84242, 18121625, 0>>, <<67819, 17920757, 0>>, <<51725, 17719951, 0>>,
          <<35979, 17519204, 0>>, <<20596, 17318516, 0>>, <<5594, 17117888, 0>>,
          <<-9014, 16917320, 0>>, <<-23210, 16716815, 0>>, <<-36982, 16516377, 0>>,
          <<-50316, 16316010, 0>>, <<-63198, 16115721, 0>>>>],
     [base |-> 5282,
      rows |-> <<
          <<66764, 6470847, 0>>, <<78976, 6445831, 0>>, <<91196, 6430015, 0>>,
          <<103407, 6423467, 0>>, <<115588, 6426217, 0>>, <<127719, 6438246, 0>>,
          <<139781, 6459497, 0>>, <<151755, 6489865, 0>>>>],
     [base |-> 5374,
      rows |-> <<
          <<-342144, 21099559, 0>>, <<-364322, 21299221, 0>>, <<-386471, 21499068, 0>>,
          <<-408567, 21699114, 0>>, <<-430587, 21899370, 0>>, <<-452505, 22099849, 0>>,
          <<-474299, 22300564, 0>>, <<-495943, 22501529, 0>>>>],
     [base |-> 5465,
      rows |-> <<
          <<-205736, 39561036, 0>>, <<-177108, 39620577, 0>>, <<-148368, 39662146, 0>>,
          <<-119547, 39685075, 0>>, <<-90672, 39688978, 0>>, <<-61775, 39673783, 0>>,
          <<-32883, 39639735, 0>>, <<-4026, 39587378, 0>>, <<24767, 39517513, 0>>,
          <<53466, 39431143, 0>>, <<82043, 39329410, 0>>, <<110468, 39213536, 0>>,
          <<138714, 39084769, 0>>, <<166752, 38944335, 0>>, <<194553, 38793416, 0>>,
          <<222090, 38633118, 0>>, <<249336, 38464468, 0>>, <<276263, 38288402, 0>>,
          <<302845, 38105768, 0>>>>],
     [base |-> 5555,
      rows |-> <<
          <<492622, 22622267, 0>>, <<474284, 22418121, 0>>, <<455786, 22214238, 0>>,
          <<437151, 22010603, 0>>, <<418403, 21807205, 0>>, <<399568, 21604031, 0>>,
          <<380669, 21401069, 0>>, <<361731, 21198308, 0>>>>],
     [base |-> 5625,
      rows |-> <<
          <<-163137, 8908244, 0>>, <<-155919, 8744720, 0>>, <<-148301, 8584401, 0>>,
          <<-140297, 8427518, 0>>, <<-131921, 8274314, 0>>, <<-123187, 8125044, 0>>,
          <<-114113, 7979976, 0>>, <<-104713, 7839389, 0>>, <<-95003, 7703574, 0>>,
          <<-85001, 7572832, 0>>, <<-74722, 7447473, 0>>>>],
     [base |-> 5647,
      rows |-> <<
          <<63598, 6478833, 0>>, <<75803, 6451446, 0>>, <<88024, 6433232, 0>>,
          <<100239, 6424274, 0>>, <<112429, 6424609, 0>>, <<124575, 6434234, 0>>,
          <<136657, 6453098, 0>>, <<148656, 6481111, 0>>>>],
     [base |-> 5739,
      rows |-> <<
          <<-336384, 21047749, 0>>, <<-358566, 21247364, 0>>, <<-380725, 21447162, 0>>,
          <<-402837, 21647155, 0>>, <<-424879, 21847355, 0>>, <<-446826, 22047775, 0>>,
          <<-468654, 22248428, 0>>, <<-490339, 22449326, 0>>>>],
     [base |-> 5830,
      rows |-> <<
          <<-213148, 39542745, 0>>, <<-184553, 39606813, 0>>, <<-155839, 39653123, 0>>,
          <<-127036, 39680940, 0>>, <<-98173, 39689803, 0>>, <<-69278, 39679555, 0>>,
          <<-40382, 39650361, 0>>, <<-11513, 39602691, 0>>>>],
     [base |-> 5921,
      rows |-> <<
          <<479062, 22471099, 0>>, <<460603, 22267149, 0>>, <<442001, 22063451, 0>>,
          <<423280, 21859992, 0>>, <<404465, 21656761, 0>>, <<385581, 21453746, 0>>,
          <<366650, 21250933, 0>>, <<347698, 21048312, 0>>>>],
     [base |-> 6013,
      rows |-> <<
          <<72632, 6457679, 0>>, <<84851, 6437074, 0>>, <<97069, 6425707, 0>>,
          <<109267, 6423629, 0>>, <<121427, 6430844, 0>>, <<133527, 6447316, 0>>,
          <<145550, 6472965, 0>>, <<157474, 6507669, 0>>>>],
     [base |-> 6105,
      rows |-> <<
          <<-352808, 21195520, 0>>, <<-374975, 21395269, 0>>, <<-397102, 21595210, 0>>,
          <<-419164, 21795355, 0>>, <<-441138, 21995717, 0>>, <<-462999, 22196308, 0>>,
          <<-484724, 22397141, 0>>, <<-506288, 22598230, 0>>>>],
     [base |-> 6196,
      rows |-> <<
          <<-191990, 39591850, 0>>, <<-163304, 39642851, 0>>, <<-134521, 39675526, 0>>,
          <<-105671, 39689337, 0>>, <<-76782, 39684049, 0>>, <<-47883, 39659741, 0>>,
          <<-19004, 39616807, 0>>, <<9825, 39555919, 0>>>>]}
SunRows(lat, lng) ==
    CASE lat = 407789 /\ lng = -739675 -> SunRows_P407789_N739675
      [] lat = 910000 /\ lng = 0 -> SunRows_P910000_P0
      [] lat = -910000 /\ lng = -1810000 -> SunRows_N910000_N1810000
      [] lat = 400000 /\ lng = 0 -> SunRows_P400000_P0
      [] lat = -650000 /\ lng = 0 -> SunRows_N650000_P0
\* END SunTable
SunPosition(cycle, lat, lng) ==
    LET seg == CHOOSE g \in SunRows(lat, lng) :
                   g.base <= cycle /\ cycle < g.base + Len(g.rows)
        e == seg.rows[cycle - seg.base + 1]
    IN [transitOffset |-> e[1], hourAngleNaN |-> e[3] = 1, hourAngle |-> e[2]]

(***************************************************************************)
(* computeSunriset(jDate, geoCoords), reading the stored durations        *)
(***************************************************************************)
KMs == 61030000
EpochDay == 2451545
EpochOffsetMs == 77760
TimezoneOffsetMs == 10800000
LngMs(lng) == lng * 24
\* jDate % 1 < 0.7063657403923571: the remainder of a negative jDate is
\* not positive
FractionBeforeK(jDate) == jDate.d < 0 \/ jDate.f < KMs
NextUpdate_Swapped(jDate) ==
    IF jDate.nan THEN NaNJD
    ELSE JD(jDate.d + (IF jDate.d < 0 \/ jDate.f < KMs THEN 1 ELSE 0), KMs)
NextUpdate(jDate) ==
    IF jDate.nan THEN NaNJD
    ELSE JD(jDate.d + (IF FractionBeforeK(jDate) THEN 0 ELSE 1), KMs)
\* sunrise = solarTransit - (sunset - solarTransit)
Sunrise_Mirrored(solarTransit, sunset) ==
    JDAddMs(solarTransit, (sunset.d - solarTransit.d) * MsPerDay + sunset.f - solarTransit.f)
Sunrise(solarTransit, sunset) ==
    JDAddMs(solarTransit, 0 - ((sunset.d - solarTransit.d) * MsPerDay + sunset.f - solarTransit.f))
JulianCycle(jDate, lng) ==
    LET x == JD(jDate.d - EpochDay, jDate.f - EpochOffsetMs + LngMs(lng))
    IN x.d + (IF 2 * x.f >= MsPerDay THEN 1 ELSE 0)
SolarOf(sunrise, sunset, nextUpdate, solar0) ==
    [sunrise |-> [date |-> sunrise, duration |-> solar0.sunrise.duration],
     sunset |-> [date |-> sunset, duration |-> solar0.sunset.duration],
     nextUpdate |-> nextUpdate]
computeSunriset(jDate, geoCoords, solar0) ==
    With(jDate, LAMBDA jd :
    IF jd.nan \/ geoCoords.latitude.nan \/ geoCoords.longitude.nan
    THEN SolarOf(NaNJD, NaNJD, NextUpdate(jd), solar0)
    ELSE
    With(JulianCycle(jd, geoCoords.longitude.v), LAMBDA julianCycle :
    With(SunPosition(julianCycle, geoCoords.latitude.v, geoCoords.longitude.v), LAMBDA pos :
    LET solarNoon == JD(EpochDay + julianCycle, EpochOffsetMs - LngMs(geoCoords.longitude.v))
        solarTransit == JDAddMs(solarNoon, pos.transitOffset)
        julianHourAngle == JDAddMs(solarNoon, pos.hourAngle)
        sunset == JDAddMs(julianHourAngle, pos.transitOffset)
        sunrise == Sunrise(solarTransit, sunset)
    IN IF pos.hourAngleNaN
       THEN SolarOf(NaNJD, NaNJD, NextUpdate(jd), solar0)
       ELSE SolarOf(JDAddMs(sunrise, 0 - solar0.sunrise.duration * MsPerMinute
                                       - TimezoneOffsetMs),
                    JDAddMs(sunset, 0 - solar0.sunset.duration * MsPerMinute
                                      - TimezoneOffsetMs),
                    NextUpdate(jd), solar0))))

(***************************************************************************)
(* computeSeasons(gDate, geoCoords): the four candidate windows, the      *)
(* selection loops and the season state it assigns.                       *)
(***************************************************************************)
Sentinel == JD(-1, 0)
WindowDays == 3
JDDiffMs(a, b) == (a.d - b.d) * MsPerDay + a.f - b.f
\* dayLength.sunset.date - dayLength.sunrise.date of one candidate day
DayLength(v, geoCoords, solar0) ==
    With(computeSunriset(v, geoCoords, solar0), LAMBDA dayLength :
        IF dayLength.sunset.date.nan \/ dayLength.sunrise.date.nan
        THEN [nan |-> TRUE, ms |-> 0]
        ELSE [nan |-> FALSE, ms |-> JDDiffMs(dayLength.sunset.date, dayLength.sunrise.date)])
\* the comparison of a selection loop: "<" for the equinoxes and the
\* hibernal solstice, ">" for the estival solstice
Selects_LessOnly(len, best, greatest) == ~len.nan /\ len.ms < best
Selects(len, best, greatest) ==
    ~len.nan /\ (IF greatest THEN len.ms > best ELSE len.ms < best)
\* for(v = min; v <= min + 3; v++): the state of the loop after candidate i
RECURSIVE SearchWindow(_, _, _, _, _)
SearchWindow(min, i, geoCoords, solar0, greatest) ==
    IF i < 0 THEN [date |-> Sentinel, len |-> IF greatest THEN 0 ELSE MsPerDay]
    ELSE With(SearchWindow(min, i - 1, geoCoords, solar0, greatest), LAMBDA prev :
         With(JDAddMs(min, i * MsPerDay), LAMBDA v :
         With(DayLength(v, geoCoords, solar0), LAMBDA len :
             IF Selects(len, prev.len, greatest)
             THEN [date |-> v, len |-> len.ms]
             ELSE prev)))
WindowMin(gDate, month) ==
    convertGregorianToJulian(
        [nan |-> gDate.nan, year |-> gDate.year, month |-> month, day |-> 20,
         hour |-> 12, minute |-> 0, second |-> 0, millisecond |-> 0])
SelectDay(gDate, month, geoCoords, solar0, greatest) ==
    IF gDate.nan THEN Sentinel
    ELSE With(WindowMin(gDate, month), LAMBDA min :
             SearchWindow(min, WindowDays, geoCoords, solar0, greatest).date)
\* the if / else-if chain that assigns seasonState; no branch is taken
\* when every comparison is false
Undefined == -1
\* the comparisons with the boundary day itself counted to the season before
SeasonStateOf_ExclusiveStart(jDate, season0, old) ==
    IF ~JDGe(jDate, season0.vernalEquinox) \/ JDLt(season0.hibernalSolstice, jDate) THEN 3
    ELSE IF ~JDLt(season0.estivalSolstice, jDate) THEN 0
    ELSE IF ~JDLt(season0.autumnalEquinox, jDate) THEN 1
    ELSE IF ~JDLt(season0.hibernalSolstice, jDate) THEN 2
    ELSE old
SeasonStateOf(jDate, season0, old) ==
    IF JDLt(jDate, season0.vernalEquinox) \/ JDGe(jDate, season0.hibernalSolstice) THEN 3
    ELSE IF JDLt(jDate, season0.estivalSolstice) THEN 0
    ELSE IF JDLt(jDate, season0.autumnalEquinox) THEN 1
    ELSE IF JDLt(jDate, season0.hibernalSolstice) THEN 2
    ELSE old
computeSeasons(gDate, geoCoords, solar0) ==
    [vernalEquinox |-> SelectDay(gDate, 3, geoCoords, solar0, FALSE),
     estivalSolstice |-> SelectDay(gDate, 6, geoCoords, solar0, TRUE),
     autumnalEquinox |-> SelectDay(gDate, 9, geoCoords, solar0, FALSE),
     hibernalSolstice |-> SelectDay(gDate, 12, geoCoords, solar0, FALSE)]

(***************************************************************************)
(* draw: the sun state and the alpha of the overlay.  The alpha is kept   *)
(* as a multiple of skyColor.night.a: [nan, n, dms] is night.a * n / dms  *)
(* with n a span of time [d, f] and dms the transition duration in ms.    *)
(***************************************************************************)
Alpha(n, dms) == [nan |-> FALSE, n |-> n, dms |-> dms]
NaNAlpha == [nan |-> TRUE, n |-> JD(0, 0), dms |-> 1]
JDSpan(a, b) == JD(a.d - b.d, a.f - b.f)
\* julianDate % 1 >= 0.5
AfterMidnight(jDate) == ~jDate.nan /\ jDate.d >= 0 /\ 2 * jDate.f >= MsPerDay
HasSet_NightOnly(jDate, solar0) == AfterMidnight(jDate) /\ JDLt(jDate, solar0.nextUpdate)
\* a test without the wraparound of the new day
HasSet_SunsetOnly(jDate, solar0) ==
    JDGe(jDate, JDAddMs(solar0.sunset.date, solar0.sunset.duration * MsPerMinute))
HasSet(jDate, solar0) ==
    \/ JDGe(jDate, JDAddMs(solar0.sunset.date, solar0.sunset.duration * MsPerMinute))
    \/ (AfterMidnight(jDate) /\ JDLt(jDate, solar0.nextUpdate))
\* a draw whose setting alpha falls from the night's to 0
DrawSky_FallingSunset(jDate, solar0) ==
    LET riseMs == solar0.sunrise.duration * MsPerMinute
        setMs == solar0.sunset.duration * MsPerMinute
    IN IF JDGe(jDate, solar0.sunrise.date) /\ JDLt(jDate, solar0.sunset.date)
       THEN IF JDGe(jDate, JDAddMs(solar0.sunrise.date, riseMs))
            THEN [sunState |-> 1, a |-> Alpha(JD(0, 0), riseMs)]
            ELSE [sunState |-> 0,
                  a |-> Alpha(JDSpan(JD(0, riseMs), JDSpan(jDate, solar0.sunrise.date)), riseMs)]
       ELSE IF HasSet(jDate, solar0)
            THEN [sunState |-> 3, a |-> Alpha(JD(0, setMs), setMs)]
            ELSE [sunState |-> 2,
                  a |-> IF jDate.nan \/ solar0.sunset.date.nan THEN NaNAlpha
                        ELSE Alpha(JDSpan(JD(0, setMs), JDSpan(jDate, solar0.sunset.date)),
                                   setMs)]
DrawSky(jDate, solar0) ==
    LET riseMs == solar0.sunrise.duration * MsPerMinute
        setMs == solar0.sunset.duration * MsPerMinute
    IN IF JDGe(jDate, solar0.sunrise.date) /\ JDLt(jDate, solar0.sunset.date)
       THEN IF JDGe(jDate, JDAddMs(solar0.sunrise.date, riseMs))
            THEN [sunState |-> 1, a |-> Alpha(JD(0, 0), riseMs)]
            ELSE [sunState |-> 0,
                  a |-> Alpha(JDSpan(JD(0, riseMs), JDSpan(jDate, solar0.sunrise.date)), riseMs)]
       ELSE IF HasSet(jDate, solar0)
            THEN [sunState |-> 3, a |-> Alpha(JD(0, setMs), setMs)]
            ELSE [sunState |-> 2,
                  a |-> IF jDate.nan \/ solar0.sunset.date.nan THEN NaNAlpha
                        ELSE Alpha(JDSpan(jDate, solar0.sunset.date), setMs)]

(***************************************************************************)
(* setDateTime(datetime).  An argument is [kind, date]: "undef", "date"   *)
(* (a Date object, valid or not), "value" (not a Date; new Date(value) is *)
(* the Date given, invalid when the value cannot be converted) or "null". *)
(***************************************************************************)
DateArgUndef == [kind |-> "undef", date |-> InvalidDate]
DateArg(kind, date) == [kind |-> kind, date |-> date]
\* the Date the sanity check leaves in datetime; reading null.getFullYear
\* throws a TypeError
SanitizedDate(arg, wallClock) ==
    CASE arg.kind = "undef" -> wallClock
      [] arg.kind = "date" -> arg.date
      [] arg.kind = "value" -> arg.date
      [] OTHER -> InvalidDate
SetDateTimeThrows(arg) == arg.kind = "null"

(***************************************************************************)
(* updateTimescale, updateUpdateRate, updateGeoCoords: the value stored   *)
(***************************************************************************)
AbsNum(x) == IF x.nan THEN x ELSE Num(Abs(x.v))
TimescaleOf(arg) ==
    CASE arg.t = "undef" -> Num(1000)
      [] arg.t = "num" -> IF arg.v <= 0 THEN Num(Abs(arg.v)) ELSE Num(arg.v)
      [] arg.t = "nan" -> NaNNum
      [] OTHER -> NumberOf(arg.s)
UpdateRateOf(arg) ==
    CASE arg.t = "undef" -> Num(60000)
      [] arg.t = "num" -> IF arg.v <= 0 THEN Num(Abs(arg.v)) ELSE Num(arg.v)
      [] arg.t = "nan" -> NaNNum
      [] OTHER -> ParseFloatOf(arg.s)
\* parseFloat of a coordinate argument, in 1/10000 degree
ParseCoord(arg) ==
    CASE arg.t = "num" -> Num(arg.v)
      [] arg.t = "str" -> LET x == ParseFloatOf(arg.s)
                           IN IF x.nan THEN x ELSE Num(x.v * 10)
      [] OTHER -> NaNNum
\* "latitude.limit(-90, 90); longitude.limit(-180, 180);": Number.limit
\* returns the clamped number and leaves its receiver alone, and the two
\* results are discarded, so the parsed numbers are what is stored
StoredLatitude(latitude) == latitude
StoredLongitude(longitude) == longitude

(***************************************************************************)
(* updateDateTime: the millisecond argument of the Date constructor,      *)
(* millisecond + updateRate * timescale * 1000, truncated by the Date.    *)
(***************************************************************************)
TruncDiv(a, b) == IF a >= 0 THEN a \div b ELSE 0 - ((0 - a) \div b)
\* an advance by the update rate alone, whatever the timescale
AdvancedMillisecond_Unscaled(millisecond, rate, scale) ==
    millisecond + rate.v
AdvancedMillisecond(millisecond, rate, scale) ==
    IF scale.v % 1000 = 0 THEN millisecond + rate.v * (scale.v \div 1000)
    ELSE IF rate.v % 1000 = 0 THEN millisecond + (rate.v \div 1000) * scale.v
    ELSE TruncDiv(millisecond * 1000 + rate.v * scale.v, 1000)
AdvancedDate(gDate, rate, scale) ==
    IF gDate.nan \/ rate.nan \/ scale.nan THEN InvalidDate
    ELSE NewDate(gDate.year, gDate.month - 1, gDate.day, gDate.hour, gDate.minute,
                 gDate.second, AdvancedMillisecond(gDate.millisecond, rate, scale))
\* gregorianDate.year !== convertJulianToGregorian(vernalEquinox).getFullYear()
NewYear(gDate, season0) ==
    LET eq == DateFields(convertJulianToGregorian(season0.vernalEquinox))
    IN gDate.nan \/ eq.nan \/ gDate.year # eq.year

(***************************************************************************)
(* The particle section of update(): the rain statement, then the snow    *)
(* statement, on p = [curr, timer, rain, snow].                           *)
(***************************************************************************)
ParticlesMax == 3
ScreenHeight == 480
TimerSet(ms) == [elapsed |-> 0, target |-> ms]
\* a rain statement that spawns whenever nextParticle has run out
RainStep_NoBound(p, raining) ==
    IF raining
    THEN IF TimerDelta(p.timer) >= 0
         THEN [p EXCEPT !.curr = p.curr + 1,
                        !.timer = TimerSet(1000 \div (ScreenHeight + 1)),
                        !.rain = p.rain + 1]
         ELSE p
    ELSE IF p.curr > 0 /\ TimerDelta(p.timer) >= 0 /\ p.rain > 0
         THEN [p EXCEPT !.curr = p.curr - 1,
                        !.timer = TimerSet(2000 \div p.curr),
                        !.rain = p.rain - 1]
         ELSE p
\* a rain statement that sets nextParticle in the kill branch whether or
\* not it found a rain entity to kill
RainStep_TimerWithoutKill(p, raining) ==
    IF raining
    THEN IF p.curr < ParticlesMax /\ TimerDelta(p.timer) >= 0
         THEN [p EXCEPT !.curr = p.curr + 1,
                        !.timer = TimerSet(1000 \div (ScreenHeight + 1)),
                        !.rain = p.rain + 1]
         ELSE IF p.curr >= ParticlesMax THEN [p EXCEPT !.timer = TimerSet(0)]
         ELSE p
    ELSE IF p.curr > 0 /\ TimerDelta(p.timer) >= 0
         THEN IF p.rain > 0
              THEN [p EXCEPT !.curr = p.curr - 1,
                             !.timer = TimerSet(2000 \div p.curr),
                             !.rain = p.rain - 1]
              ELSE [p EXCEPT !.timer = TimerSet(2000 \div (p.curr + 1))]
         ELSE p
RainStep(p, raining) ==
    IF raining
    THEN IF p.curr < ParticlesMax /\ TimerDelta(p.timer) >= 0
         THEN [p EXCEPT !.curr = p.curr + 1,
                        !.timer = TimerSet(1000 \div (ScreenHeight + 1)),
                        !.rain = p.rain + 1]
         ELSE IF p.curr >= ParticlesMax THEN [p EXCEPT !.timer = TimerSet(0)]
         ELSE p
    ELSE IF p.curr > 0 /\ TimerDelta(p.timer) >= 0 /\ p.rain > 0
         THEN [p EXCEPT !.curr = p.curr - 1,
                        !.timer = TimerSet(2000 \div p.curr),
                        !.rain = p.rain - 1]
         ELSE p
SnowStep(p, snowing) ==
    IF snowing
    THEN IF p.curr < ParticlesMax /\ TimerDelta(p.timer) >= 0
         THEN [p EXCEPT !.curr = p.curr + 1,
                        !.timer = TimerSet(1000 \div (ParticlesMax - p.curr)),
                        !.snow = p.snow + 1]
         ELSE IF p.curr >= ParticlesMax THEN [p EXCEPT !.timer = TimerSet(0)]
         ELSE p
    ELSE IF p.curr > 0 /\ TimerDelta(p.timer) >= 0 /\ p.snow > 0
         THEN [p EXCEPT !.curr = p.curr - 1,
                        !.timer = TimerSet(2000 \div p.curr),
                        !.snow = p.snow - 1]
         ELSE p

(***************************************************************************)
(* State.                                                                  *)
(***************************************************************************)
VARIABLES
    gregorianDate,    \* the current CalendarDate
    julianDate,       \* its day number, as stored by setDateTime
    timescale,        \* stored timescale
    updateRate,       \* stored update rate
    updateTimer,      \* ig.Timer(updateRate)
    geoCoords,        \* [latitude, longitude]
    solar,            \* [sunrise, sunset, nextUpdate]
    season,           \* the four season boundaries
    seasonState,      \* 0..3, or Undefined
    sunState,         \* 0..3, or Undefined before the first draw
    skyAlpha,         \* sky.a of the last draw
    weatherCondition, \* [rain, snow]
    particles,        \* [curr, timer, rain, snow]: particlesCurr, nextParticle
                      \*   and the live EntityRain / EntitySnow entities
    lastOp,           \* the operation that produced this state
    threw,            \* the last operation threw
    solarInput,       \* the jDate handed to the computeSunriset call that
                      \*   produced solar
    seasonInput,      \* the gDate handed to the computeSeasons call that
                      \*   produced season
    fired,            \* the timer branch of the last update() was taken
    recomputed,       \* what the last operation recomputed: "season", "solar"
    returned,         \* the Date returned by the last getDateTime()
    draws,            \* draw() calls since the last other operation: 0, 1, 2 or more
    elapsedReal,      \* ms between the last reset of updateTimer and the last update()
    ticksLeft,        \* frames the host still runs
    callsLeft,        \* configuration calls the game still makes
    calDate,          \* the CalendarDate handed to the conversions
    calJulian,        \* convertGregorianToJulian(calDate)
    calBack,          \* the fields of convertJulianToGregorian(calJulian)
    calPrevJulian,    \* calJulian of the civil day before, same clock time
    calStage,         \* "input", "converted" or "stepped"
    calSteps          \* civil days stepped so far

calVars == <<calDate, calJulian, calBack, calPrevJulian, calStage, calSteps>>
clockVars == <<gregorianDate, julianDate>>
configVars == <<timescale, updateRate, updateTimer>>
skyVars == <<geoCoords, solar, season, seasonState, solarInput, seasonInput>>
drawVars == <<sunState, skyAlpha>>
particleVars == <<weatherCondition, particles>>
probeVars == <<recomputed, returned, draws, elapsedReal>>
engineVars ==
    <<clockVars, configVars, skyVars, drawVars, particleVars, lastOp, threw, fired,
      probeVars, ticksLeft, callsLeft>>
vars == <<engineVars, calVars>>

(***************************************************************************)
(* The engine: constructor and operations.                                 *)
(***************************************************************************)
\* what new Date() returns: the wall clock of the host
WallClock == NewDate(2015, 5, 1, 10, 0, 0, 0)
\* the prototype's solar and season objects and coordinates
DefaultSolar ==
    [sunrise |-> [date |-> JD(0, 0), duration |-> 60],
     sunset |-> [date |-> JD(0, 0), duration |-> 60],
     nextUpdate |-> JD(0, 0)]
DefaultSeason ==
    [vernalEquinox |-> JD(0, 0), estivalSolstice |-> JD(0, 0),
     autumnalEquinox |-> JD(0, 0), hibernalSolstice |-> JD(0, 0)]
DefaultGeoCoords == [latitude |-> Num(407789), longitude |-> Num(-739675)]

\* the state of the calendar variables in the specifications of the engine
CalIdle ==
    /\ calDate = NaNDate
    /\ calJulian = JD(0, 0)
    /\ calBack = NaNDate
    /\ calPrevJulian = JD(0, 0)
    /\ calStage = "idle"
    /\ calSteps = 0

\* new ig.Atmosphere(datetime, updateRate, timescale): init() calls
\* setDateTime, updateTimescale, updateUpdateRate and updateGeoCoords with
\* the prototype's coordinates, then creates the particle timer
Construct(datetime, rate, scale) ==
    /\ ~SetDateTimeThrows(datetime)
    /\ gregorianDate = DateFields(SanitizedDate(datetime, WallClock))
    /\ julianDate = convertGregorianToJulian(gregorianDate)
    /\ timescale = TimescaleOf(scale)
    /\ updateRate = UpdateRateOf(rate)
    /\ updateTimer = Timer(updateRate)
    /\ geoCoords = DefaultGeoCoords
    /\ season = computeSeasons(gregorianDate, geoCoords, DefaultSolar)
    /\ seasonState = SeasonStateOf(julianDate, season, Undefined)
    /\ solar = computeSunriset(julianDate, geoCoords, DefaultSolar)
    /\ solarInput = julianDate
    /\ seasonInput = gregorianDate
    /\ sunState = Undefined
    /\ skyAlpha = NaNAlpha
    /\ weatherCondition = [rain |-> FALSE, snow |-> FALSE]
    /\ particles = [curr |-> 0, timer |-> TimerSet(0), rain |-> 0, snow |-> 0]
    /\ lastOp = "init"
    /\ threw = FALSE
    /\ fired = FALSE
    /\ recomputed = {"season", "solar"}
    /\ returned = InvalidDate
    /\ draws = 0
    /\ elapsedReal = 0

SetDateTime(datetime) ==
    /\ callsLeft > 0
    /\ callsLeft' = callsLeft - 1
    /\ lastOp' = "setDateTime"
    /\ threw' = SetDateTimeThrows(datetime)
    /\ IF SetDateTimeThrows(datetime)
       THEN UNCHANGED clockVars
       ELSE /\ gregorianDate' = DateFields(SanitizedDate(datetime, WallClock))
            /\ julianDate' = convertGregorianToJulian(gregorianDate')
    /\ recomputed' = {}
    /\ draws' = 0
    /\ elapsedReal' = 0
    /\ UNCHANGED <<configVars, skyVars, drawVars, particleVars, fired, returned, ticksLeft,
                   calVars>>

UpdateTimescale(scale) ==
    /\ callsLeft > 0
    /\ callsLeft' = callsLeft - 1
    /\ lastOp' = "updateTimescale"
    /\ threw' = FALSE
    /\ timescale' = TimescaleOf(scale)
    /\ recomputed' = {}
    /\ draws' = 0
    /\ elapsedReal' = 0
    /\ UNCHANGED <<clockVars, updateRate, updateTimer, skyVars, drawVars, particleVars,
                   fired, returned, ticksLeft, calVars>>

UpdateUpdateRate(rate) ==
    /\ callsLeft > 0
    /\ callsLeft' = callsLeft - 1
    /\ lastOp' = "updateUpdateRate"
    /\ threw' = FALSE
    /\ updateRate' = UpdateRateOf(rate)
    /\ updateTimer' = Timer(updateRate')
    /\ recomputed' = {}
    /\ draws' = 0
    /\ elapsedReal' = 0
    /\ UNCHANGED <<clockVars, timescale, skyVars, drawVars, particleVars, fired, returned,
                   ticksLeft, calVars>>

UpdateGeoCoords(lat, lng) ==
    /\ callsLeft > 0
    /\ callsLeft' = callsLeft - 1
    /\ lastOp' = "updateGeoCoords"
    /\ threw' = FALSE
    /\ geoCoords' = [latitude |-> StoredLatitude(ParseCoord(lat)),
                     longitude |-> StoredLongitude(ParseCoord(lng))]
    /\ season' = computeSeasons(gregorianDate, geoCoords', solar)
    /\ solarInput' = convertGregorianToJulian(gregorianDate)
    /\ seasonState' = SeasonStateOf(solarInput', season', seasonState)
    /\ solar' = computeSunriset(solarInput', geoCoords', solar)
    /\ seasonInput' = gregorianDate
    /\ recomputed' = {"season", "solar"}
    /\ draws' = 0
    /\ elapsedReal' = 0
    /\ UNCHANGED <<clockVars, configVars, drawVars, particleVars, fired, returned, ticksLeft,
                   calVars>>

\* ig.Timer.step() of one frame: the game time advances by dt milliseconds.
\* Only the sign of delta() is read, so the elapsed time of a timer is kept
\* up to its target.
Min(a, b) == IF a < b THEN a ELSE b
Max(a, b) == IF a < b THEN b ELSE a
TimerAdvance(tm, dt) == [tm EXCEPT !.elapsed = Min(tm.elapsed + dt, Max(tm.target, 0))]

\* updateDateTime, then the two recomputations of the timer branch of
\* update(): the seasons for a new year, the sun for a new day
TimerBranch ==
    /\ gregorianDate' = DateFields(AdvancedDate(gregorianDate, updateRate, timescale))
    /\ julianDate' = convertGregorianToJulian(gregorianDate')
    /\ IF NewYear(gregorianDate', season)
       THEN /\ season' = computeSeasons(gregorianDate', geoCoords, solar)
            /\ seasonState' =
                  SeasonStateOf(julianDate', season',
                                SeasonStateOf(julianDate', season, seasonState))
            /\ seasonInput' = gregorianDate'
       ELSE /\ season' = season
            /\ seasonState' = SeasonStateOf(julianDate', season, seasonState)
            /\ seasonInput' = seasonInput
    /\ IF JDGe(julianDate', solar.nextUpdate)
       THEN /\ solar' = computeSunriset(julianDate', geoCoords, solar)
            /\ solarInput' = julianDate'
       ELSE UNCHANGED <<solar, solarInput>>
    /\ recomputed' =
          (IF NewYear(gregorianDate', season) THEN {"season"} ELSE {})
             \cup (IF JDGe(julianDate', solar.nextUpdate) THEN {"solar"} ELSE {})

\* update(), called dt after the frame before: the timer branch and then
\* the particle section
update(dt) ==
    /\ lastOp' = "update"
    /\ draws' = 0
    /\ elapsedReal' = updateTimer.elapsed + dt
    /\ threw' = FALSE
    /\ fired' = (TimerDelta(TimerAdvance(updateTimer, dt)) >= 0)
    /\ IF fired'
       THEN /\ updateTimer' = TimerReset(updateTimer)
            /\ TimerBranch
       ELSE /\ updateTimer' = TimerAdvance(updateTimer, dt)
            /\ recomputed' = {}
            /\ UNCHANGED <<gregorianDate, julianDate, season, seasonState, seasonInput,
                           solar, solarInput>>
    /\ particles' =
          SnowStep(RainStep([particles EXCEPT !.timer = TimerAdvance(particles.timer, dt)],
                            weatherCondition.rain),
                   weatherCondition.snow)
    /\ UNCHANGED <<timescale, updateRate, geoCoords, drawVars, weatherCondition,
                   returned, callsLeft, calVars>>

\* one frame of the host, of a game that runs for a number of frames
Update(dt) ==
    /\ ticksLeft > 0
    /\ ticksLeft' = ticksLeft - 1
    /\ update(dt)

\* a draw() that steps the phase on from the one of the draw() before
Draw_Cycling ==
    /\ draws' = (IF draws = 0 THEN 1 ELSE 2)
    /\ elapsedReal' = 0
    /\ sunState' = (IF lastOp = "draw" THEN (sunState + 1) % 4
                    ELSE DrawSky(julianDate, solar).sunState)
    /\ skyAlpha' = DrawSky(julianDate, solar).a
    /\ lastOp' = "draw"
    /\ threw' = FALSE
    /\ recomputed' = {}
    /\ UNCHANGED <<clockVars, configVars, skyVars, particleVars, fired, returned, ticksLeft,
                   callsLeft, calVars>>

Draw ==
    /\ draws' = (IF draws = 0 THEN 1 ELSE 2)
    /\ elapsedReal' = 0
    /\ sunState' = DrawSky(julianDate, solar).sunState
    /\ skyAlpha' = DrawSky(julianDate, solar).a
    /\ lastOp' = "draw"
    /\ threw' = FALSE
    /\ recomputed' = {}
    /\ UNCHANGED <<clockVars, configVars, skyVars, particleVars, fired, returned, ticksLeft,
                   callsLeft, calVars>>

(***************************************************************************)
(* Specification of the engine under arbitrary use of its interface.      *)
(***************************************************************************)
MaxTicks == 2
MaxCalls == 1
ExampleDate == NewDate(2014, 3, 14, 17, 23, 37, 0)
YearEndDate == NewDate(2014, 11, 31, 23, 59, 30, 0)
ConstructorDates ==
    {DateArgUndef, DateArg("date", ExampleDate), DateArg("date", YearEndDate)}
\* a Date, no argument, an invalid Date, a value new Date() cannot convert,
\* and null
DateArgs ==
    {DateArg("date", YearEndDate), DateArgUndef, DateArg("date", InvalidDate),
     DateArg("value", InvalidDate), DateArg("null", InvalidDate)}
NumberArgs ==
    {ArgUndef, ArgNum(0), ArgNum(-2000), ArgNaN, ArgStr("-3"), ArgStr(""), ArgStr("abc")}
\* <<updateRate, timescale>> of the constructor: the defaults, and the demo's
\* "updating every 0.5 seconds, running at 600x real time"
ConstructorConfigs == {<<ArgUndef, ArgUndef>>, <<ArgNum(500), ArgNum(600000)>>}
CoordArgs ==
    {<<ArgNum(910000), ArgNum(0)>>, <<ArgNum(-910000), ArgNum(-1810000)>>,
     <<ArgNum(400000), ArgNum(0)>>, <<ArgStr("abc"), ArgNum(0)>>}
FrameTimes == {500, 60000}

Init ==
    /\ CalIdle
    /\ ticksLeft = MaxTicks
    /\ callsLeft = MaxCalls
    /\ \E datetime \in ConstructorDates, c \in ConstructorConfigs :
          Construct(datetime, c[1], c[2])

Next ==
    \/ \E datetime \in DateArgs : SetDateTime(datetime)
    \/ \E scale \in NumberArgs : UpdateTimescale(scale)
    \/ \E rate \in NumberArgs : UpdateUpdateRate(rate)
    \/ \E c \in CoordArgs : UpdateGeoCoords(c[1], c[2])
    \/ \E dt \in FrameTimes : Update(dt)
    \/ Draw

Spec == Init /\ [][Next]_vars

(***************************************************************************)
(* Specification of a day of the demo game: started at the README's date, *)
(* updating every 0.5 seconds at 600x real time, the game's update() and  *)
(* draw() calling the plugin's in every frame; the game may move to       *)
(* another place before its first frame.                                  *)
(***************************************************************************)
MaxDayTicks == 300
DayFrame == 500
DayCoords == {<<ArgNum(400000), ArgNum(0)>>}

DayInit ==
    /\ CalIdle
    /\ ticksLeft = MaxDayTicks
    /\ callsLeft = 1
    /\ Construct(DateArg("date", ExampleDate), ArgNum(500), ArgNum(600000))

DayNext ==
    \/ lastOp = "init" /\ \E c \in DayCoords : UpdateGeoCoords(c[1], c[2])
    \/ lastOp # "update" /\ Update(DayFrame)
    \/ lastOp = "update" /\ Draw

SpecDay == DayInit /\ [][DayNext]_vars


(***************************************************************************)
(* getDateTime(): new Date(year, month, day, hour, mintute, second,       *)
(* millisecond) of the gregorianDate.  The object has no property         *)
(* "mintute": the argument is undefined, NaN as a number, and a Date      *)
(* built from a NaN field is an Invalid Date.  The month is handed over   *)
(* as stored, 1..12, where the constructor counts from 0.                 *)
(***************************************************************************)
getDateTime(gDate) ==
    LET mintute == NaNNum
    IN IF gDate.nan \/ mintute.nan THEN InvalidDate
       ELSE NewDate(gDate.year, gDate.month, gDate.day, gDate.hour, mintute.v,
                    gDate.second, gDate.millisecond)

GetDateTime ==
    /\ lastOp # "getDateTime"
    /\ returned' = getDateTime(gregorianDate)
    /\ lastOp' = "getDateTime"
    /\ threw' = FALSE
    /\ recomputed' = {}
    /\ draws' = 0
    /\ elapsedReal' = 0
    /\ UNCHANGED <<clockVars, configVars, skyVars, drawVars, particleVars, fired, ticksLeft,
                   callsLeft, calVars>>

(***************************************************************************)
(* Specification of a game that configures the plugin twice: two calls of *)
(* the configuration methods, frames, draws and reads of the date, in any *)
(* order, after new ig.Atmosphere(new Date(2014, 3, 14, 17, 23, 37)).     *)
(***************************************************************************)
MaxConfigCalls == 2
MaxConfigTicks == 1

CallsInit ==
    /\ CalIdle
    /\ ticksLeft = MaxConfigTicks
    /\ callsLeft = MaxConfigCalls
    /\ Construct(DateArg("date", ExampleDate), ArgUndef, ArgUndef)

CallsNext ==
    \/ Next
    \/ GetDateTime

SpecCalls == CallsInit /\ [][CallsNext]_vars

(***************************************************************************)
(* Specification of the weather: the game sets weatherCondition.rain and   *)
(* weatherCondition.snow between frames, the engine spawns and kills the   *)
(* particles in update().                                                  *)
(***************************************************************************)
\* "ig.Atmosphere.weatherCondition.rain = true;"
SetRain(on) ==
    /\ weatherCondition.rain # on
    /\ weatherCondition' = [weatherCondition EXCEPT !.rain = on]
    /\ lastOp' = "weatherCondition"
    /\ threw' = FALSE
    /\ recomputed' = {}
    /\ draws' = 0
    /\ elapsedReal' = 0
    /\ UNCHANGED <<clockVars, configVars, skyVars, drawVars, particles, fired, returned,
                   ticksLeft, callsLeft, calVars>>

\* "ig.Atmosphere.weatherCondition.snow = true;"
SetSnow(on) ==
    /\ weatherCondition.snow # on
    /\ weatherCondition' = [weatherCondition EXCEPT !.snow = on]
    /\ lastOp' = "weatherCondition"
    /\ threw' = FALSE
    /\ recomputed' = {}
    /\ draws' = 0
    /\ elapsedReal' = 0
    /\ UNCHANGED <<clockVars, configVars, skyVars, drawVars, particles, fired, returned,
                   ticksLeft, callsLeft, calVars>>

MaxWeatherTicks == 5
\* frame times in ms: a frame at 50 fps, a slow frame, a second, and the
\* update rate
WeatherFrames == {20, 400, 1000, 60000}

WeatherInit ==
    /\ CalIdle
    /\ ticksLeft = MaxWeatherTicks
    /\ callsLeft = 0
    /\ Construct(DateArg("date", ExampleDate), ArgUndef, ArgUndef)

WeatherNext ==
    \/ \E on \in BOOLEAN : SetRain(on)
    \/ \E on \in BOOLEAN : SetSnow(on)
    \/ \E dt \in WeatherFrames : Update(dt)

SpecWeather == WeatherInit /\ [][WeatherNext]_vars

(***************************************************************************)
(* Specification of a game started a minute before noon of one of    *)
(* the candidate days of computeSeasons (the 20th to the 23rd of March,    *)
(* June, September and December 2014), with the default update rate and   *)
(* timescale; the game may move to another place once.                    *)
(***************************************************************************)
MaxSeasonTicks == 2
SeasonMonths == {2, 5, 8, 11}
SeasonDays == 20..23
SeasonDates ==
    {DateArg("date", NewDate(2014, m, d, 11, 59, 0, 0)) : m \in SeasonMonths, d \in SeasonDays}
SeasonCoords == {<<ArgNum(400000), ArgNum(0)>>, <<ArgNum(-650000), ArgNum(0)>>}

SeasonsInit ==
    /\ CalIdle
    /\ ticksLeft = MaxSeasonTicks
    /\ callsLeft = 1
    /\ \E datetime \in SeasonDates : Construct(datetime, ArgUndef, ArgUndef)

SeasonsNext ==
    \/ \E c \in SeasonCoords : UpdateGeoCoords(c[1], c[2])
    \/ \E dt \in FrameTimes : Update(dt)

SpecSeasons == SeasonsInit /\ [][SeasonsNext]_vars

(***************************************************************************)
(* Specification of the weather of a game that never ends: the clock is   *)
(* paused (timescale 0, updating every second), so that the frames can go *)
(* on for ever in a finite state space; the particle section of update()  *)
(* reads neither the date nor the timescale.  The host calls update() in  *)
(* every frame: the frames are weakly fair, the changes of the weather     *)
(* are not.                                                                *)
(***************************************************************************)
\* frame times in ms: a slow frame and a second
DrainFrames == {400, 1000}

DrainInit ==
    /\ CalIdle
    /\ ticksLeft = 0
    /\ callsLeft = 0
    /\ Construct(DateArg("date", ExampleDate), ArgNum(1000), ArgNum(0))

Frame == \E dt \in DrainFrames : UNCHANGED ticksLeft /\ update(dt)

DrainNext ==
    \/ \E on \in BOOLEAN : SetRain(on)
    \/ \E on \in BOOLEAN : SetSnow(on)
    \/ Frame

SpecDrain == DrainInit /\ [][DrainNext]_vars /\ WF_vars(Frame)
(***************************************************************************)
(* The calendar conversions applied to a bounded set of dates.            *)
(***************************************************************************)
MaxCalSteps == 2
CalYears == {1000, 1600, 1900, 1999, 2000, 2014, 2099, 2100, 2200, 2399, 2400}
CalMonthDays == {<<1, 1>>, <<2, 28>>, <<3, 1>>, <<6, 15>>, <<12, 31>>}
CalClocks ==
    {<<0, 0, 0, 0>>, <<5, 59, 59, 999>>, <<11, 59, 59, 999>>, <<12, 0, 0, 0>>,
     <<17, 23, 37, 0>>, <<17, 59, 59, 999>>, <<18, 0, 0, 0>>, <<23, 59, 59, 999>>}
CalDates ==
    {GDate(y, md[1], md[2], c[1], c[2], c[3], c[4]) :
        y \in CalYears, md \in CalMonthDays, c \in CalClocks}

\* the engine is not constructed in the specification of the conversions
EngineIdle ==
    /\ gregorianDate = NaNDate
    /\ julianDate = NaNJD
    /\ timescale = Num(1000)
    /\ updateRate = Num(60000)
    /\ updateTimer = TimerSet(0)
    /\ geoCoords = DefaultGeoCoords
    /\ solar = DefaultSolar
    /\ season = DefaultSeason
    /\ seasonState = Undefined
    /\ sunState = Undefined
    /\ skyAlpha = NaNAlpha
    /\ weatherCondition = [rain |-> FALSE, snow |-> FALSE]
    /\ particles = [curr |-> 0, timer |-> TimerSet(0), rain |-> 0, snow |-> 0]
    /\ lastOp = "none"
    /\ threw = FALSE
    /\ fired = FALSE
    /\ recomputed = {}
    /\ returned = InvalidDate
    /\ draws = 0
    /\ elapsedReal = 0
    /\ solarInput = NaNJD
    /\ seasonInput = NaNDate
    /\ ticksLeft = 0
    /\ callsLeft = 0

CalInit ==
    /\ EngineIdle
    /\ calDate \in CalDates
    /\ calJulian = JD(0, 0)
    /\ calBack = calDate
    /\ calPrevJulian = JD(0, 0)
    /\ calStage = "input"
    /\ calSteps = 0

CalConvert ==
    /\ calStage = "input"
    /\ calJulian' = convertGregorianToJulian(calDate)
    /\ calBack' = DateFields(convertJulianToGregorian(calJulian'))
    /\ calStage' = "converted"
    /\ UNCHANGED <<calDate, calPrevJulian, calSteps, engineVars>>

\* the same clock time on the next civil day
CalNextDay ==
    /\ calStage \in {"converted", "stepped"}
    /\ calSteps < MaxCalSteps
    /\ calDate' = DateFields(NewDate(calDate.year, calDate.month - 1, calDate.day + 1,
                                     calDate.hour, calDate.minute, calDate.second,
                                     calDate.millisecond))
    /\ calJulian' = convertGregorianToJulian(calDate')
    /\ calBack' = DateFields(convertJulianToGregorian(calJulian'))
    /\ calPrevJulian' = calJulian
    /\ calStage' = "stepped"
    /\ calSteps' = calSteps + 1
    /\ UNCHANGED engineVars

CalNext == CalConvert \/ CalNextDay
SpecCalendar == CalInit /\ [][CalNext]_vars

(***************************************************************************)
(* Calendar properties.                                                    *)
(***************************************************************************)
\* the instant of a CalendarDate on the host's time line, in [day, ms]
ClockMs(gd) ==
    gd.hour * MsPerHour + gd.minute * MsPerMinute + gd.second * MsPerSecond + gd.millisecond
CivilDay(gd) == MakeDay(gd.year, gd.month - 1, gd.day)
\* the reference Julian day number of a Gregorian date: 2451545 plus the
\* elapsed days since 2000-01-01 12:00:00.000
ReferenceJulian(gd) ==
    JD(2451545 + CivilDay(gd) - MakeDay(2000, 0, 1), ClockMs(gd) - 12 * MsPerHour)

\* C1: convertJulianToGregorian(convertGregorianToJulian(d)) is the same
\* instant as d to within one second, and reproduces the year, month, day,
\* hour and minute of d, for every hour of the day and every century.
C1_RoundTrip ==
    calStage # "input" =>
        /\ ~calBack.nan
        /\ calBack.year = calDate.year /\ calBack.month = calDate.month
        /\ calBack.day = calDate.day /\ calBack.hour = calDate.hour
        /\ calBack.minute = calDate.minute
        /\ CivilDay(calBack) = CivilDay(calDate)
        /\ Abs(ClockMs(calBack) - ClockMs(calDate)) <= MsPerSecond

C3_GeoCoordsInRange ==
    /\ ~geoCoords.latitude.nan
    /\ geoCoords.latitude.v >= -900000 /\ geoCoords.latitude.v <= 900000
    /\ ~geoCoords.longitude.nan
    /\ geoCoords.longitude.v >= -1800000 /\ geoCoords.longitude.v <= 1800000

NoonOf(year, month, day) == ReferenceJulian(GDate(year, month, day, 12, 0, 0, 0))
NonPolar ==
    /\ ~seasonInput.nan /\ ~geoCoords.latitude.nan /\ ~geoCoords.longitude.nan
    /\ \A month \in {3, 6, 9, 12}, day \in 20..23 :
          LET len == DayLength(NoonOf(seasonInput.year, month, day), geoCoords, solar)
          IN ~len.nan /\ len.ms > 0 /\ len.ms < MsPerDay
InWindow(jDate, month) ==
    \E day \in 20..23 : jDate = NoonOf(seasonInput.year, month, day)

\* C5: at a non-polar coordinate the season boundaries that computeSeasons
\* returned for a year are in the order vernalEquinox < estivalSolstice <
\* autumnalEquinox < hibernalSolstice, each is noon of the 20th to 23rd of
\* March, June, September and December of that year, and none is the
\* sentinel -1.
C5_SeasonOrdering ==
    NonPolar =>
        /\ JDLt(season.vernalEquinox, season.estivalSolstice)
        /\ JDLt(season.estivalSolstice, season.autumnalEquinox)
        /\ JDLt(season.autumnalEquinox, season.hibernalSolstice)
        /\ InWindow(season.vernalEquinox, 3)
        /\ InWindow(season.estivalSolstice, 6)
        /\ InWindow(season.autumnalEquinox, 9)
        /\ InWindow(season.hibernalSolstice, 12)
        /\ Sentinel \notin {season.vernalEquinox, season.estivalSolstice,
                            season.autumnalEquinox, season.hibernalSolstice}
C5_Witness ==
    /\ NonPolar
    /\ lastOp = "update" /\ fired
    /\ seasonInput = gregorianDate /\ seasonInput.year = 2015

\* the hour angle of the day computeSunriset was last asked about is a number
HourAngleDefined ==
    /\ ~solarInput.nan /\ ~geoCoords.latitude.nan /\ ~geoCoords.longitude.nan
    /\ ~SunPosition(JulianCycle(solarInput, geoCoords.longitude.v),
                    geoCoords.latitude.v, geoCoords.longitude.v).hourAngleNaN

\* C6: where the hour angle is defined, computeSunriset returns numbers with
\* sunrise.date < sunset.date.
C6_SunriseBeforeSunset ==
    HourAngleDefined =>
        /\ ~solar.sunrise.date.nan /\ ~solar.sunset.date.nan
        /\ JDLt(solar.sunrise.date, solar.sunset.date)
C6_Witness ==
    /\ HourAngleDefined
    /\ lastOp = "updateGeoCoords"
    /\ geoCoords.latitude = Num(400000)
    /\ solarInput = julianDate

\* C7: between two consecutive draws the sun state either stays or moves to
\* its cyclic successor, 0 -> 1 -> 2 -> 3 -> 0.
C7_CyclicPhases ==
    [][(lastOp' = "draw" /\ sunState # Undefined /\ sunState' # sunState)
          => sunState' = (sunState + 1) % 4]_vars

\* C8: a draw at a day number at or after sunset.date + sunset.duration / 1440
\* sets sun state 3 and the alpha of the night.
NightAlpha == Alpha(JD(0, solar.sunset.duration * MsPerMinute),
                    solar.sunset.duration * MsPerMinute)
AfterSunset ==
    JDGe(julianDate, JDAddMs(solar.sunset.date, solar.sunset.duration * MsPerMinute))
C8_SetAfterSunset ==
    (lastOp = "draw" /\ AfterSunset) => (sunState = 3 /\ skyAlpha = NightAlpha)
C8_Witness ==
    /\ lastOp = "draw" /\ AfterSunset
    /\ ~AfterMidnight(julianDate)
    /\ sunState = 3

\* C9: the stored timescale and update rate are positive numbers: never
\* zero, negative or NaN.
C9_PositiveConfiguration ==
    /\ ~timescale.nan /\ timescale.v > 0
    /\ ~updateRate.nan /\ updateRate.v > 0

\* C10: setDateTime does not throw, and the CalendarDate it stores has
\* numeric fields only.
C10_DateRecovered ==
    lastOp = "setDateTime" => (~threw /\ ~gregorianDate.nan)


(***************************************************************************)
(* Properties of the derived state.                                        *)
(***************************************************************************)
\* the arccos argument of the hour angle of the day computeSunriset was last
\* asked about is outside [-1, 1]: sunrise.date and sunset.date are NaN
PolarDay ==
    /\ ~solarInput.nan /\ ~geoCoords.latitude.nan /\ ~geoCoords.longitude.nan
    /\ SunPosition(JulianCycle(solarInput, geoCoords.longitude.v),
                   geoCoords.latitude.v, geoCoords.longitude.v).hourAngleNaN
\* the same for every candidate day of the search window of a month
PolarWindow(month) ==
    /\ ~seasonInput.nan /\ ~geoCoords.latitude.nan /\ ~geoCoords.longitude.nan
    /\ \A day \in 20..23 :
          DayLength(NoonOf(seasonInput.year, month, day), geoCoords, solar).nan
Boundary(month) ==
    CASE month = 3 -> season.vernalEquinox
      [] month = 6 -> season.estivalSolstice
      [] month = 9 -> season.autumnalEquinox
      [] month = 12 -> season.hibernalSolstice

\* C11: when sunrise.date and sunset.date are NaN, draw derives no sun state
\* 0..3 and a NaN alpha; when every candidate day length of a search window
\* is NaN, the boundary computeSeasons returns for it is NaN and the season
\* state is none of 0..3.
C11_PolarVisible ==
    /\ (lastOp = "draw" /\ PolarDay) => (sunState \notin 0..3 /\ skyAlpha.nan)
    /\ \A month \in {3, 6, 9, 12} :
          ("season" \in recomputed /\ PolarWindow(month)) =>
              (Boundary(month).nan /\ seasonState \notin 0..3)

\* C12: with timescale 0 an update() leaves all seven fields of a valid
\* gregorianDate as they were.
C12_FrozenClock ==
    [][(lastOp' = "update" /\ timescale = Num(0) /\ ~gregorianDate.nan)
          => gregorianDate' = gregorianDate]_vars

\* C13: updateGeoCoords replaces season and solar by the values computed from
\* the new coordinates and the current date, so that nextUpdate is after the
\* current day number, and leaves the date, the timescale, the update rate
\* and the two durations as they were.
C13_ImmediateRecompute ==
    [][lastOp' = "updateGeoCoords" =>
          /\ season' = computeSeasons(gregorianDate', geoCoords', solar')
          /\ solar' = computeSunriset(convertGregorianToJulian(gregorianDate'),
                                      geoCoords', solar')
          /\ JDLt(convertGregorianToJulian(gregorianDate'), solar'.nextUpdate)
          /\ UNCHANGED <<gregorianDate, julianDate, timescale, updateRate>>
          /\ solar'.sunrise.duration = solar.sunrise.duration
          /\ solar'.sunset.duration = solar.sunset.duration]_vars

\* C15: getDateTime() of a valid current date returns a valid Date with the
\* year, month, day, hour, minute, second and millisecond of gregorianDate.
C15_GetDateTimeCurrent ==
    (lastOp = "getDateTime" /\ ~gregorianDate.nan) =>
        (returned.valid /\ DateFields(returned) = gregorianDate)

ParticleBound ==
    /\ 0 <= particles.curr
    /\ particles.curr <= ParticlesMax
    /\ particles.curr = particles.rain + particles.snow

\* C16: particlesCurr stays within 0..particlesMax and equals the number of
\* live rain and snow entities, and a frame that starts with particlesCurr
\* at particlesMax spawns no particle.
C16_ParticleBound ==
    [][/\ ParticleBound'
       /\ particles.curr = ParticlesMax =>
             (particles'.rain <= particles.rain /\ particles'.snow <= particles.snow)]_vars

\* a frame with rain or snow on has found particlesCurr at particlesMax, with
\* both kinds of particle alive, and has set nextParticle to 0 instead of
\* spawning
C16_Witness ==
    /\ lastOp = "update"
    /\ weatherCondition.rain \/ weatherCondition.snow
    /\ particles.curr = ParticlesMax
    /\ particles.rain > 0
    /\ particles.snow > 0
    /\ particles.timer = TimerSet(0)

\* C17: after a setDateTime, an update or an updateGeoCoords that returned,
\* seasonState is the phase that the comparison of julianDate with the four
\* stored boundaries gives.
C17_SeasonStateCurrent ==
    (lastOp \in {"setDateTime", "update", "updateGeoCoords"} /\ ~threw) =>
        seasonState = SeasonStateOf(julianDate, season, Undefined)

\* C18: an update() whose timer has run out recomputes the solar state from
\* the advanced date exactly when the advanced julianDate has reached
\* solar.nextUpdate, and ends with julianDate before solar.nextUpdate; an
\* update() whose timer has not run out changes neither the date nor the
\* solar or season state.
C18_SolarTrigger ==
    [][lastOp' = "update" =>
          IF fired'
          THEN /\ IF JDGe(julianDate', solar.nextUpdate)
                  THEN solar' = computeSunriset(julianDate', geoCoords, solar)
                  ELSE solar' = solar
               /\ JDLt(julianDate', solar'.nextUpdate)
          ELSE UNCHANGED <<gregorianDate, julianDate, solar, season, seasonState>>]_vars

\* C19: an update() whose timer has run out recomputes the season state
\* exactly when the year of the advanced date is not the calendar year of the
\* stored vernal equinox, leaves the four boundaries alone otherwise, and
\* ends with the vernal equinox in the year of the date.
C19_SeasonTrigger ==
    [][(lastOp' = "update" /\ fired') =>
          /\ IF NewYear(gregorianDate', season)
             THEN season' = computeSeasons(gregorianDate', geoCoords, solar)
             ELSE season' = season
          /\ ~NewYear(gregorianDate', season')]_vars

\* updateRate * timescale * 1000, the advance of a tick, is not negative
NonNegativeAdvance ==
    /\ ~updateRate.nan
    /\ ~timescale.nan
    /\ \/ updateRate.v >= 0 /\ timescale.v >= 0
       \/ updateRate.v <= 0 /\ timescale.v <= 0

\* C20: every solar.nextUpdate is a whole day number plus NextUpdateFraction
\* (KMs ms); an update() that recomputes the solar state after a
\* non-negative advance moves nextUpdate on by a whole number of days, at
\* least one, and past julianDate, so that no second recomputation falls
\* between the same two nextUpdate instants.
C20_DailyRecompute ==
    [][/\ ~solar'.nextUpdate.nan
       /\ solar'.nextUpdate.f = KMs
       /\ (lastOp' = "update" /\ "solar" \in recomputed' /\ NonNegativeAdvance) =>
              /\ solar'.nextUpdate.d > solar.nextUpdate.d
              /\ JDLt(julianDate', solar'.nextUpdate)]_vars

\* real time between two advances of the clock times the timescale, in ms
ScaledMs(ms, scale) ==
    IF scale.v % 1000 = 0 THEN ms * (scale.v \div 1000)
    ELSE TruncDiv(ms * scale.v, 1000)

\* C21: an update() that advances the clock moves the date on by the real
\* time that has passed since the timer was last reset, times the timescale.
C21_RealTimeAdvance ==
    [][(/\ lastOp' = "update"
        /\ fired'
        /\ ~gregorianDate.nan
        /\ ~timescale.nan
        /\ ~updateRate.nan) =>
           julianDate' = JDAddMs(julianDate, ScaledMs(elapsedReal', timescale))]_vars

\* the number of days of a month of the civil calendar
DaysInMonth(year, month) ==
    IF month = 12 THEN 31
    ELSE MonthStart(month, InLeapYear(year)) - MonthStart(month - 1, InLeapYear(year))

\* C22, as the claim states it: an update() that advances the clock changes
\* neither the month nor the year of gregorianDate.
C22_NoMonthYearCarry ==
    [][(lastOp' = "update" /\ fired' /\ ~gregorianDate.nan /\ ~gregorianDate'.nan) =>
          (gregorianDate'.month = gregorianDate.month
              /\ gregorianDate'.year = gregorianDate.year)]_vars

\* C22, amended: an update() that advances the clock stores the fields of
\* the Date built from the advanced millisecond count: either all of them
\* NaN, or a date of the civil calendar (month 1..12, day within the length
\* of the month) whose day number is the one before plus
\* updateRate * timescale seconds, with the carry into month and year.
C22_MonthYearCarry ==
    [][(lastOp' = "update" /\ fired') =>
          IF gregorianDate'.nan THEN gregorianDate' = NaNDate
          ELSE /\ gregorianDate'.month \in 1..12
               /\ gregorianDate'.day \in 1..DaysInMonth(gregorianDate'.year, gregorianDate'.month)
               /\ julianDate' = JDAddMs(julianDate, ScaledMs(updateRate.v, timescale))]_vars

\* an update() has advanced 31 December 2014 into 1 January 2015
C22_Witness ==
    /\ lastOp = "update"
    /\ fired
    /\ ~gregorianDate.nan
    /\ gregorianDate.year = 2015
    /\ gregorianDate.month = 1
    /\ gregorianDate.day = 1
    /\ seasonInput.year = 2015

\* julianDate >= solar.sunrise.date && julianDate < solar.sunset.date
SunIsUp == JDGe(julianDate, solar.sunrise.date) /\ JDLt(julianDate, solar.sunset.date)
\* julianDate % 1 >= 0.5 && julianDate < solar.nextUpdate
BeforeNextUpdate == AfterMidnight(julianDate) /\ JDLt(julianDate, solar.nextUpdate)

\* C23, as the claim states it: a draw at a day number with fraction >= 0.5
\* and before solar.nextUpdate sets sun state 3.
C23_WraparoundAlways ==
    (lastOp = "draw" /\ BeforeNextUpdate) => sunState = 3

\* C23, amended: a draw at a day number outside [sunrise.date, sunset.date)
\* with fraction >= 0.5 and before solar.nextUpdate sets sun state 3 and the
\* alpha of the night.
C23_WraparoundWhenDown ==
    (lastOp = "draw" /\ ~SunIsUp /\ BeforeNextUpdate) =>
        (sunState = 3 /\ skyAlpha = NightAlpha)

\* a draw between midnight and nextUpdate, before the stored sunset: only the
\* wraparound test makes it a night
C23_Witness ==
    /\ lastOp = "draw"
    /\ ~SunIsUp
    /\ BeforeNextUpdate
    /\ ~AfterSunset
    /\ sunState = 3

\* the time since sunrise.date and since sunset.date, and the two durations
\* in ms
SinceSunrise == JDSpan(julianDate, solar.sunrise.date)
SinceSunset == JDSpan(julianDate, solar.sunset.date)
RiseMs == solar.sunrise.duration * MsPerMinute
SetMs == solar.sunset.duration * MsPerMinute

\* the alpha that the formula of each phase gives
AlphaByPhase ==
    /\ sunState = 0 =>
          /\ skyAlpha = Alpha(JDSpan(JD(0, RiseMs), SinceSunrise), RiseMs)
          /\ JDLt(JD(0, 0), skyAlpha.n)
          /\ JDGe(JD(0, RiseMs), skyAlpha.n)
    /\ sunState = 1 => skyAlpha = Alpha(JD(0, 0), RiseMs)
    /\ sunState = 2 =>
          IF julianDate.nan \/ solar.sunset.date.nan THEN skyAlpha.nan
          ELSE /\ skyAlpha = Alpha(SinceSunset, SetMs)
               /\ JDLt(skyAlpha.n, JD(0, SetMs))
    /\ sunState = 3 => skyAlpha = Alpha(JD(0, SetMs), SetMs)
\* two spans of time differ by at most ms
AbsSpanLe(a, b, ms) == JDGe(JD(0, ms), JDSpan(a, b)) /\ JDGe(JD(0, ms), JDSpan(b, a))

Ordered(season0) ==
    /\ JDLt(season0.vernalEquinox, season0.estivalSolstice)
    /\ JDLt(season0.estivalSolstice, season0.autumnalEquinox)
    /\ JDLt(season0.autumnalEquinox, season0.hibernalSolstice)
Between(lo, jDate, hi) == JDGe(jDate, lo) /\ JDLt(jDate, hi)
SeasonStateSet ==
    \/ lastOp \in {"init", "updateGeoCoords"}
    \/ lastOp = "update" /\ fired

Candidates(year, month) == {NoonOf(year, month, day) : day \in 20..23}
LengthOf(jDate) == DayLength(jDate, geoCoords, solar)
\* r is the earliest of the candidates with the smallest (greatest) day
\* length of its window
SelectedFrom(r, cands, greatest) ==
    /\ r \in cands
    /\ ~LengthOf(r).nan
    /\ \A c \in cands :
          /\ ~LengthOf(c).nan
          /\ IF greatest THEN LengthOf(c).ms <= LengthOf(r).ms
                         ELSE LengthOf(r).ms <= LengthOf(c).ms
          /\ LengthOf(c).ms = LengthOf(r).ms => JDGe(c, r)
SeasonsComputed == "season" \in recomputed

\* C26: the boundaries computeSeasons has just returned are, of the four
\* candidates of each window (noon of the 20th to the 23rd of March, June,
\* September and December of the given year), the one with the smallest day
\* length for the vernal equinox, the autumnal equinox and the hibernal
\* solstice and the one with the greatest for the estival solstice, the
\* earliest on ties
C26_SelectionRule ==
    SeasonsComputed =>
        /\ SelectedFrom(season.vernalEquinox, Candidates(seasonInput.year, 3), FALSE)
        /\ SelectedFrom(season.estivalSolstice, Candidates(seasonInput.year, 6), TRUE)
        /\ SelectedFrom(season.autumnalEquinox, Candidates(seasonInput.year, 9), FALSE)
        /\ SelectedFrom(season.hibernalSolstice, Candidates(seasonInput.year, 12), FALSE)

HalfDayMs == MsPerDay \div 2
\* | day length of the candidate - 12 hours |, in ms
OffTwelveHours(jDate) == Abs(LengthOf(jDate).ms - HalfDayMs)
ClosestToTwelveHours(r, cands) ==
    /\ r \in cands
    /\ ~LengthOf(r).nan
    /\ \A c \in cands : ~LengthOf(c).nan /\ OffTwelveHours(r) <= OffTwelveHours(c)

\* C27: the vernal and the autumnal equinox computeSeasons has just returned
\* are, of the candidates of their windows, a day whose day length is
\* closest to 12 hours
C27_EquinoxClosestToTwelveHours ==
    SeasonsComputed =>
        /\ ClosestToTwelveHours(season.vernalEquinox, Candidates(seasonInput.year, 3))
        /\ ClosestToTwelveHours(season.autumnalEquinox, Candidates(seasonInput.year, 9))

\* solar.nextUpdate - now, as a span of days
UntilNextUpdate == JDSpan(solar.nextUpdate, julianDate)
SolarIsFresh ==
    /\ ~solar.nextUpdate.nan
    /\ JDLt(JD(0, 0), UntilNextUpdate)
    /\ JDGe(JD(1, 0), UntilNextUpdate)

\* C28: at the end of every update() in which the timer elapsed, with a
\* valid current date, the cached solar state is the one of the current
\* civil day: 0 < solar.nextUpdate - now <= 1
C28_SolarFresh == (lastOp = "update" /\ fired /\ ~julianDate.nan) => SolarIsFresh

SunriseBeforeSunset ==
    /\ ~solar.sunrise.date.nan /\ ~solar.sunset.date.nan
    /\ JDLt(solar.sunrise.date, solar.sunset.date)
    /\ solar.sunrise.duration > 0 /\ solar.sunset.duration > 0
AlphaInRange ==
    /\ ~skyAlpha.nan
    /\ JDGe(skyAlpha.n, JD(0, 0))
    /\ JDGe(JD(0, skyAlpha.dms), skyAlpha.n)

\* C29: after every draw with a numeric current day number and a solar
\* state with sunrise.date < sunset.date and positive durations, the alpha
\* of the overlay is in [0, night.a], the phase is Setting only when
\* sunset.date <= now < sunset.date + sunset.duration / 1440 and Rising
\* only when sunrise.date <= now < sunrise.date + sunrise.duration / 1440
C29_BrightnessRange ==
    (lastOp = "draw" /\ ~julianDate.nan /\ SunriseBeforeSunset) =>
        /\ AlphaInRange
        /\ sunState = 2 =>
              Between(solar.sunset.date, julianDate,
                      JDAddMs(solar.sunset.date, SetMs))
        /\ sunState = 0 =>
              Between(solar.sunrise.date, julianDate,
                      JDAddMs(solar.sunrise.date, RiseMs))

(***************************************************************************)
(* The weather of a game that never ends                                   *)
(***************************************************************************)
BothOff == ~weatherCondition.rain /\ ~weatherCondition.snow
OnlyRain == weatherCondition.rain /\ ~weatherCondition.snow
OnlySnow == ~weatherCondition.rain /\ weatherCondition.snow
Drained == particles.curr = 0 /\ particles.rain = 0 /\ particles.snow = 0
Full == particles.curr = ParticlesMax

\* C30: while update() keeps being called, from every state after which
\* rain and snow both stay off particlesCurr eventually is 0 with every rain
\* and snow entity removed, and from every state after which rain alone, or
\* snow alone, stays on particlesCurr eventually is particlesMax
C30_ParticleDrain ==
    /\ []([]BothOff => <>Drained)
    /\ []([]OnlyRain => <>Full)
    /\ []([]OnlySnow => <>Full)
\* the frame that killed the last particle
C30_Witness ==
    /\ lastOp = "update" /\ BothOff /\ Drained
    /\ particles.timer = TimerSet(2000)
====
